---- MODULE Spec2Model ----
(***************************************************************************)
(* OTP authentication service (cavidyrm/otp).                             *)
(*                                                                         *)
(* The model follows internal/services/auth_service.go step by step: one   *)
(* action per database call, so that concurrent requests interleave where  *)
(* the Go code can be preempted between two statements on the shared       *)
(* tables.  Local computation is folded into the database call it feeds    *)
(* (or, for the validity re-check and UpdateLastLogin, which read the      *)
(* clock between two calls, kept as a step of its own).                    *)
(*                                                                         *)
(* Time is a discrete clock `now`; durations (OTP lifetime, rate-limit     *)
(* window, JWT lifetime) are counted in ticks of that clock.               *)
(***************************************************************************)
EXTENDS Integers, Sequences, FiniteSets, TLC

(***************************************************************************)
(* Bounds of the model.                                                    *)
(***************************************************************************)
\* last instant of the clock
MaxTime == 3
\* last instant of the clock in a behaviour whose claims need no challenge to expire
MaxShortTime == 1
\* phone numbers that make requests in a behaviour about one client
MaxPhones == 1
\* number of GenerateOTP, VerifyOTP and user Delete invocations in one behaviour
MaxGenerate == 2
MaxVerify == 2
MaxDelete == 1
\* in a behaviour about the rate limit: GenerateOTP invocations beyond MaxRequests,
\* and VerifyOTP invocations
MaxOverLimit == 1
MaxRateVerify == 1
\* digits are 0..MaxDigit (the source draws from "0123456789")
MaxDigit == 1
\* in a behaviour about repeated attempts: VerifyOTP invocations with a wrong code
MaxAttempts == 2
\* in a behaviour with housekeeping: DeleteExpired runs, and VerifyOTP invocations
MaxPurge == 1
MaxPurgeVerify == 1
\* in a behaviour with failing store calls: store calls that fail, and GenerateOTP
\* and VerifyOTP invocations
MaxFaults == 2
MaxFaultGenerate == 1
MaxFaultVerify == 2
\* in a behaviour about the HTTP responses: VerifyOTP invocations, and calls that fail
\* in a behaviour about generateRandomCode: its invocations, the lengths asked for,
\* and GenerateOTP invocations beside them
MaxRandom == 2
MaxLength == 4
MaxRandomGenerate == 1
MaxTransportVerify == 1
MaxTransportFaults == 1
\* in a behaviour about tokens alone: ValidateToken invocations, user ids in the
\* claims of the tokens presented
MaxValidate == 1
MaxTokenUser == 2
\* in a behaviour about sessions: GenerateOTP, VerifyOTP, user Delete and
\* ValidateToken invocations
MaxSessionGenerate == 1
MaxSessionVerify == 1
MaxSessionDelete == 1
MaxSessionValidate == 1

(***************************************************************************)
(* Configuration (internal/config, env-settable; small values here).       *)
(***************************************************************************)
\* config.RateLimit.MaxRequests
MaxRequests == 2
\* config.RateLimit.WindowMinutes
WindowMinutes == 2
\* config.RateLimit.WindowMinutes in the behaviours with housekeeping
PurgeWindowMinutes == 3
\* config.OTP.ExpiryMinutes
ExpiryMinutes == 2
\* config.OTP.Length
OTPLength == 1
\* config.JWT.ExpiryHours
JWTExpiryHours == 2

\* phone numbers (identities) used by the requests
Phones == {"+1555000111", "+1555000222"}
\* concurrent request slots (goroutines serving HTTP requests)
Procs == {1, 2}

\* config.JWT.Secret
Secret == "test-secret"
\* a key that is not the configured one
OtherSecret == "other-secret"

(***************************************************************************)
(* Error strings, as the services build them.                              *)
(***************************************************************************)
ErrRateLimit == "rate limit exceeded. Please try again later"
ErrNoOTP == "invalid or expired OTP"
ErrBadCode == "invalid OTP code"
ErrExpired == "OTP has expired"
ErrCheckRateLimit == "failed to check rate limit"
ErrGenerateOTP == "failed to generate OTP"
ErrSaveOTP == "failed to save OTP"
ErrGetOTP == "failed to get OTP"
ErrMarkAsUsed == "failed to mark OTP as used"
ErrGetUser == "failed to get user"
ErrCreateUser == "failed to create user"
ErrUpdateUser == "failed to update user"
ErrUserNotFound == "user not found"
ErrInvalidToken == "invalid token"
\* the error of database/sql that userService passes on as it is
ErrDatabase == "sql: database is closed"
\* a nil error
OK == "ok"
\* the invocation has not returned yet
Pending == ""

\* SQL NULL / Go nil for a *time.Time
NullTime == -1

(***************************************************************************)
(* models.OTP, models.User, models.Claims                                  *)
(***************************************************************************)
\* the zero models.OTP; id 0 is no row (ids are SERIAL, from 1)
NilOTP == [id |-> 0, phone |-> "", code |-> <<>>, expiresAt |-> 0, createdAt |-> 0, used |-> FALSE]

\* the zero models.User; id 0 is no user
NilUser == [id |-> 0, phone |-> "", createdAt |-> 0, updatedAt |-> 0, lastLoginAt |-> NullTime]

\* the zero models.Claims
NilClaims == [user_id |-> 0, phone_number |-> "", exp |-> 0]

\* a token string is header.payload.signature, each part base64url of its bytes; it
\* is kept here as the three parts it decodes to (form "jwt"), or as a string that
\* does not decode (form "malformed"), or as the empty string (form "empty")
NilHeader == [alg |-> "", typ |-> ""]

\* the signature of algorithm alg under key over the signing input header.payload:
\* two signatures are equal only when algorithm, key and input are
Sign(alg, key, header, payload) ==
    [alg |-> alg, key |-> key, header |-> header, payload |-> payload]

\* the empty token string (no token)
NilToken ==
    [form |-> "empty", header |-> NilHeader, payload |-> NilClaims,
     sig |-> Sign("", "", NilHeader, NilClaims)]

\* a string that is not a JWT ("invalid-token" in the service's test)
MalformedToken == [NilToken EXCEPT !.form = "malformed"]

\* jwt.NewWithClaims(method, claims).SignedString(key)
SignedString(alg, key, claims) ==
    LET header == [alg |-> alg, typ |-> "JWT"]
    IN  [form |-> "jwt", header |-> header, payload |-> claims,
         sig |-> Sign(alg, key, header, claims)]

\* a NewOTP whose ExpiresAt is the time of creation
NewOTPNoLifetime(phoneNumber, code, expiryMinutes, t) ==
    [id |-> 0, phone |-> phoneNumber, code |-> code, expiresAt |-> t,
     createdAt |-> t, used |-> FALSE]

\* models.NewOTP: ExpiresAt = time.Now() + expiry, CreatedAt = time.Now(), Used = false
NewOTP(phoneNumber, code, expiryMinutes, t) ==
    [id |-> 0, phone |-> phoneNumber, code |-> code, expiresAt |-> t + expiryMinutes,
     createdAt |-> t, used |-> FALSE]

\* no models.OTPResponse
NoBody == [message |-> "", expiresIn |-> 0]

\* the models.OTPResponse of GenerateOTP
OTPResponse == [message |-> "OTP sent successfully", expiresIn |-> ExpiryMinutes]

\* OTP.IsExpired: time.Now().After(o.ExpiresAt)
IsExpired(o, t) == t > o.expiresAt

\* OTP.IsValid
IsValid(o, t) == ~o.used /\ ~IsExpired(o, t)

\* models.NewUser: fresh uuid, CreatedAt = UpdatedAt = now, LastLoginAt nil
NewUser(phoneNumber, uuid, t) ==
    [id |-> uuid, phone |-> phoneNumber, createdAt |-> t, updatedAt |-> t, lastLoginAt |-> NullTime]

\* an UpdateLastLogin that leaves UpdatedAt as it was
UpdateLastLoginOnly(u, t) == [u EXCEPT !.lastLoginAt = t]

\* User.UpdateLastLogin
UpdateLastLogin(u, t) == [u EXCEPT !.lastLoginAt = t, !.updatedAt = t]

\* a generateJWT that leaves the phone_number claim empty
generateJWTNoPhone(u, t) ==
    SignedString("HS256", Secret,
                 [user_id |-> u.id, phone_number |-> "", exp |-> t + JWTExpiryHours])

\* authService.generateJWT: HS256 under config.JWT.Secret over
\* {user_id, phone_number, exp = now + expiry}
generateJWT(u, t) ==
    SignedString("HS256", Secret,
                 [user_id |-> u.id, phone_number |-> u.phone, exp |-> t + JWTExpiryHours])

\* the algorithms whose method is a *jwt.SigningMethodHMAC
HMACAlgs == {"HS256", "HS384", "HS512"}

\* what ValidateToken returns for a token it refuses
InvalidToken == [err |-> ErrInvalidToken, claims |-> NilClaims]

\* a ValidateToken that still accepts a token at the instant of its exp
ValidateTokenInclusive(tokenString, t) ==
    IF tokenString.form # "jwt"
       THEN InvalidToken
    ELSE IF tokenString.header.alg \notin HMACAlgs
       THEN InvalidToken
    ELSE IF tokenString.sig # Sign(tokenString.header.alg, Secret, tokenString.header,
                                   tokenString.payload)
       THEN InvalidToken
    ELSE IF ~(t <= tokenString.payload.exp)
       THEN InvalidToken
    ELSE [err |-> OK, claims |-> tokenString.payload]

\* a ValidateToken that does not verify the signature
ValidateTokenUnverified(tokenString, t) ==
    IF tokenString.form # "jwt"
       THEN InvalidToken
    ELSE IF tokenString.header.alg \notin HMACAlgs
       THEN InvalidToken
    ELSE IF ~(t < tokenString.payload.exp)
       THEN InvalidToken
    ELSE [err |-> OK, claims |-> tokenString.payload]

\* authService.ValidateToken at time t: jwt.ParseWithClaims splits and decodes the
\* string, the key function refuses a method that is not HMAC, the signature is
\* verified under config.JWT.Secret, and the validator refuses a token whose exp
\* (Claims.GetExpirationTime) is not after the current time
ValidateToken(tokenString, t) ==
    IF tokenString.form # "jwt"
       THEN InvalidToken
    ELSE IF tokenString.header.alg \notin HMACAlgs
       THEN InvalidToken
    ELSE IF tokenString.sig # Sign(tokenString.header.alg, Secret, tokenString.header,
                                   tokenString.payload)
       THEN InvalidToken
    ELSE IF ~(t < tokenString.payload.exp)
       THEN InvalidToken
    ELSE [err |-> OK, claims |-> tokenString.payload]

\* the digits rand.Int draws an index of
Digits == 0..MaxDigit

\* a generateRandomCode whose loop ends one byte early
generateRandomCodeOneShort(length) ==
    [1..(IF length > 0 THEN length - 1 ELSE 0) -> Digits]

\* authService.generateRandomCode: every string it can return, one digit for each
\* byte of make([]byte, length)
generateRandomCode(length) == [1..length -> Digits]

(***************************************************************************)
(* otpRepository: the otps table is a set of rows.                         *)
(***************************************************************************)
\* an insert that replaces the rows the phone number had
OTPCreateReplace(rows, o, serial) ==
    {x \in rows : x.phone # o.phone} \cup {[o EXCEPT !.id = serial]}

\* INSERT INTO otps (...): id is SERIAL
OTPCreate(rows, o, serial) == rows \cup {[o EXCEPT !.id = serial]}

\* a filter without the phone_number condition
ValidOTPsAnyPhone(rows, phoneNumber, t) ==
    {o \in rows : ~o.used /\ o.expiresAt > t}

\* a filter with expires_at >= NOW()
ValidOTPsInclusive(rows, phoneNumber, t) ==
    {o \in rows : o.phone = phoneNumber /\ ~o.used /\ o.expiresAt >= t}

\* rows matching WHERE phone_number = $1 AND used = false AND expires_at > NOW()
ValidOTPs(rows, phoneNumber, t) ==
    {o \in rows : o.phone = phoneNumber /\ ~o.used /\ o.expiresAt > t}

\* the query without ORDER BY created_at DESC: any matching row
GetByPhoneNumberAny(rows, phoneNumber, t) == ValidOTPs(rows, phoneNumber, t)

\* ... ORDER BY created_at DESC LIMIT 1: the rows the query may return
\* (empty: sql.ErrNoRows; rows of equal created_at are returned in any order)
GetByPhoneNumber(rows, phoneNumber, t) ==
    {o \in ValidOTPs(rows, phoneNumber, t) :
        \A o2 \in ValidOTPs(rows, phoneNumber, t) : o2.createdAt <= o.createdAt}

\* an update without the phone_number condition
MarkAsUsedAllPhones(rows, phoneNumber) ==
    {IF ~o.used THEN [o EXCEPT !.used = TRUE] ELSE o : o \in rows}

\* an update that also ends the lifetime of the rows it marks
MarkAsUsedAndExpire(rows, phoneNumber) ==
    {IF o.phone = phoneNumber /\ ~o.used
        THEN [o EXCEPT !.used = TRUE, !.expiresAt = o.createdAt] ELSE o : o \in rows}

\* an update that matches no row (WHERE ... used = true)
MarkAsUsedNoRow(rows, phoneNumber) ==
    {IF o.phone = phoneNumber /\ o.used THEN [o EXCEPT !.used = TRUE] ELSE o : o \in rows}

\* an update of the most recently created unused row only
MarkAsUsedLatest(rows, phoneNumber) ==
    {IF /\ o.phone = phoneNumber /\ ~o.used
        /\ \A o2 \in rows : (o2.phone = phoneNumber /\ ~o2.used) => o2.createdAt <= o.createdAt
        THEN [o EXCEPT !.used = TRUE] ELSE o : o \in rows}

\* an update of the earliest created unused row only
MarkAsUsedOldest(rows, phoneNumber) ==
    {IF /\ o.phone = phoneNumber /\ ~o.used
        /\ \A o2 \in rows : (o2.phone = phoneNumber /\ ~o2.used) => o.createdAt <= o2.createdAt
        THEN [o EXCEPT !.used = TRUE] ELSE o : o \in rows}

\* UPDATE otps SET used = true WHERE phone_number = $1 AND used = false
MarkAsUsed(rows, phoneNumber) ==
    {IF o.phone = phoneNumber /\ ~o.used THEN [o EXCEPT !.used = TRUE] ELSE o : o \in rows}

\* a DELETE with expires_at <= NOW()
DeleteExpiredInclusive(rows, t) == {o \in rows : ~(o.expiresAt <= t)}

\* DELETE FROM otps WHERE expires_at < NOW()
DeleteExpired(rows, t) == {o \in rows : ~(o.expiresAt < t)}

\* a count with created_at > $2
GetRecentOTPCountAfter(rows, phoneNumber, since) ==
    Cardinality({o \in rows : o.phone = phoneNumber /\ o.createdAt > since})

\* a count of the rows not yet consumed
GetRecentOTPCountUnused(rows, phoneNumber, since) ==
    Cardinality({o \in rows : o.phone = phoneNumber /\ o.createdAt >= since /\ ~o.used})

\* a count without the created_at condition
GetRecentOTPCountAll(rows, phoneNumber, since) ==
    Cardinality({o \in rows : o.phone = phoneNumber})

\* SELECT COUNT(*) FROM otps WHERE phone_number = $1 AND created_at >= $2
GetRecentOTPCount(rows, phoneNumber, since) ==
    Cardinality({o \in rows : o.phone = phoneNumber /\ o.createdAt >= since})

(***************************************************************************)
(* userRepository: the users table is a set of rows;                       *)
(* id is the PRIMARY KEY, phone_number is UNIQUE.                          *)
(***************************************************************************)
\* a users table without constraints
UserInsertAllowedAny(rows, u) == TRUE

\* a users table without UNIQUE on phone_number
UserInsertAllowedByID(rows, u) == \A x \in rows : x.id # u.id

\* the constraints of CREATE TABLE users on an insert
UserInsertAllowed(rows, u) == \A x \in rows : x.id # u.id /\ x.phone # u.phone

\* INSERT INTO users (...)
UserCreate(rows, u) == rows \cup {u}

\* SELECT ... FROM users WHERE id = $1
UserGetByID(rows, id) == {u \in rows : u.id = id}

\* SELECT ... FROM users WHERE phone_number = $1
UserGetByPhoneNumber(rows, phoneNumber) == {u \in rows : u.phone = phoneNumber}

\* UPDATE users SET phone_number = $2, updated_at = $3, last_login_at = $4 WHERE id = $1
UserUpdate(rows, u) ==
    {IF x.id = u.id
        THEN [x EXCEPT !.phone = u.phone, !.updatedAt = u.updatedAt, !.lastLoginAt = u.lastLoginAt]
        ELSE x : x \in rows}

\* DELETE FROM users WHERE id = $1
UserDelete(rows, id) == {u \in rows : u.id # id}

(***************************************************************************)
(* State                                                                   *)
(***************************************************************************)
VARIABLES
    now,      \* the wall clock
    otps,     \* table otps
    otpSeq,   \* the SERIAL sequence of otps.id
    users,    \* table users
    userSeq,  \* number of uuids drawn so far (uuid.New() never repeats)
    req,      \* per request slot: the invocation in flight and its local variables
    last,     \* what the invocation that returned last returned
    calls,    \* invocations started so far, per operation (fault: calls that failed)
    quota,    \* invocations a behaviour may start, per operation
    hist      \* history: what was issued and what was verified

vars == <<now, otps, otpSeq, users, userSeq, req, last, calls, quota, hist>>

\* a slot with no invocation in flight
Idle ==
    [op |-> "none", pc |-> "idle", phone |-> "", code |-> <<>>,
     otp |-> NilOTP, user |-> NilUser, id |-> 0, made |-> FALSE, at |-> 0]

(***************************************************************************)
(* handlers: the HTTP response written for what the service returned.      *)
(***************************************************************************)
\* no HTTP response
NoHTTP == [status |-> 0, error |-> ""]

\* AuthHandler.GenerateOTP, after the service call
AuthHandlerGenerateOTP(err) ==
    IF err = OK THEN [status |-> 200, error |-> ""]
    ELSE IF err = ErrRateLimit THEN [status |-> 429, error |-> err]
    ELSE [status |-> 500, error |-> "Failed to generate OTP"]

\* an AuthHandler.VerifyOTP that does not know "OTP has expired"
AuthHandlerVerifyOTPTwo(err) ==
    IF err = OK THEN [status |-> 200, error |-> ""]
    ELSE IF err \in {ErrNoOTP, ErrBadCode} THEN [status |-> 401, error |-> err]
    ELSE [status |-> 500, error |-> "Failed to verify OTP"]

\* AuthHandler.VerifyOTP, after the service call
AuthHandlerVerifyOTP(err) ==
    IF err = OK THEN [status |-> 200, error |-> ""]
    ELSE IF err \in {ErrNoOTP, ErrBadCode, ErrExpired} THEN [status |-> 401, error |-> err]
    ELSE [status |-> 500, error |-> "Failed to verify OTP"]

\* a UserHandler.DeleteUser that answers 500 to every error
UserHandlerDeleteUserPlain(err) ==
    IF err = OK THEN [status |-> 200, error |-> ""]
    ELSE [status |-> 500, error |-> "Failed to delete user"]

\* UserHandler.DeleteUser, after the service call
UserHandlerDeleteUser(err) ==
    IF err = OK THEN [status |-> 200, error |-> ""]
    ELSE IF err = ErrUserNotFound THEN [status |-> 404, error |-> "User not found"]
    ELSE [status |-> 500, error |-> "Failed to delete user"]

\* UserHandler.GetUser, after the service call
UserHandlerGetUser(err) ==
    IF err = OK THEN [status |-> 200, error |-> ""]
    ELSE IF err = ErrUserNotFound THEN [status |-> 404, error |-> "User not found"]
    ELSE [status |-> 500, error |-> "Failed to get user"]

\* the HTTP response of the handler of operation op
Respond(op, err) ==
    CASE op = "generate" -> AuthHandlerGenerateOTP(err)
      [] op = "verify" -> AuthHandlerVerifyOTP(err)
      [] op = "delete" -> UserHandlerDeleteUser(err)
      [] op = "get" -> UserHandlerGetUser(err)
      [] OTHER -> NoHTTP

\* no response yet
NoResp ==
    [op |-> "none", phone |-> "", code |-> <<>>, err |-> Pending, token |-> NilToken,
     user |-> NilUser, otp |-> 0, made |-> FALSE, at |-> 0, claims |-> NilClaims,
     body |-> NoBody, http |-> NoHTTP, length |-> 0, id |-> 0]

\* what the invocation in rec returns: err (OK: the nil error), and on success
\* the token and the user
Response(rec, err, tok) ==
    [op |-> rec.op, phone |-> rec.phone, code |-> rec.code, err |-> err, token |-> tok,
     user |-> IF err = OK THEN rec.user ELSE NilUser,
     otp |-> rec.otp.id, made |-> rec.made, at |-> rec.at, claims |-> NilClaims,
     body |-> NoBody, http |-> Respond(rec.op, err), length |-> 0,
     id |-> rec.id]

\* the invocation of slot r, with locals rec, returns
Return(r, rec, err, tok) ==
    /\ req' = [req EXCEPT ![r] = Idle]
    /\ last' = Response(rec, err, tok)

\* the GenerateOTP of slot r, with locals rec, returns its models.OTPResponse
ReturnOTPResponse(r, rec) ==
    /\ req' = [req EXCEPT ![r] = Idle]
    /\ last' = [Response(rec, OK, NilToken) EXCEPT !.body = OTPResponse]

\* slot r moves on to step pc with locals rec
Goto(r, rec, pc) ==
    /\ req' = [req EXCEPT ![r] = [rec EXCEPT !.pc = pc]]
    /\ last' = last

\* history, for stating properties; no action reads it:
\*   log      every challenge as it was inserted
\*   wins     per challenge id, the number of VerifyOTP calls that returned a session on it
\*   bad      per challenge id, the number of VerifyOTP calls that returned "invalid OTP code" on it
\*   ok       per phone number, the number of VerifyOTP calls that returned a session
\*   sealed   per phone number, MarkAsUsed ran and no challenge was inserted since
\*   created  every user row as it was inserted
NoHistory ==
    [log |-> {}, wins |-> <<>>, bad |-> <<>>, ok |-> [p \in Phones |-> 0],
     sealed |-> [p \in Phones |-> FALSE], created |-> {}]

\* the phone numbers that make requests: the first quota.phones of Phones
Dialled == IF quota.phones >= Cardinality(Phones) THEN Phones ELSE {"+1555000111"}

\* a new request is served by the first slot that is free
Free(r) == req[r].pc = "idle" /\ \A q \in Procs : q < r => req[q].pc # "idle"

\* a new invocation of op in slot r
Begin(r, op) ==
    /\ Free(r)
    /\ calls[op] < quota[op]
    /\ calls' = [calls EXCEPT ![op] = @ + 1]
    /\ quota' = quota

\* the state after construction: empty tables, no request in flight; q is the
\* number of invocations of each operation the behaviour may start, of phone
\* numbers that make requests, and the last instant of its clock
Start(q) ==
    /\ now = 0
    /\ otps = {}
    /\ otpSeq = 0
    /\ users = {}
    /\ userSeq = 0
    /\ req = [r \in Procs |-> Idle]
    /\ last = NoResp
    /\ calls = [generate |-> 0, verify |-> 0, delete |-> 0, purge |-> 0, fault |-> 0,
                validate |-> 0, random |-> 0, get |-> 0]
    /\ quota = q
    /\ hist = NoHistory

\* the core behaviours: one client, and a clock that runs until a challenge issued
\* at the start has expired
Init ==
    Start([generate |-> MaxGenerate, verify |-> MaxVerify, delete |-> 0, purge |-> 0, fault |-> 0,
           validate |-> 0, random |-> 0, get |-> 0,
           phones |-> MaxPhones, until |-> ExpiryMinutes])

\* time passes
Tick ==
    /\ now < quota.until
    /\ now' = now + 1
    /\ UNCHANGED <<otps, otpSeq, users, userSeq, req, last, calls, quota, hist>>

(***************************************************************************)
(* authService.GenerateOTP                                                 *)
(***************************************************************************)
\* count > s.config.RateLimit.MaxRequests
RateLimitExceededStrict(count) == count > MaxRequests

\* count >= s.config.RateLimit.MaxRequests
RateLimitExceeded(count) == count >= MaxRequests

\* a GenerateOTP for the phone number is between its count and its insert
GenerateOTPInFlight(phoneNumber) ==
    \E q \in Procs : req[q].op = "generate" /\ req[q].phone = phoneNumber

\* a GenerateOTP that does not insert once the limit has been reached meanwhile
GenerateOTPCreateIfBelow(r) ==
    /\ req[r].op = "generate" /\ req[r].pc = "create"
    /\ LET otp == NewOTP(req[r].phone, req[r].code, ExpiryMinutes, now)
       IN  IF RateLimitExceeded(GetRecentOTPCount(otps, req[r].phone, now - WindowMinutes))
              THEN /\ Return(r, req[r], ErrRateLimit, NilToken)
                   /\ UNCHANGED <<otps, otpSeq, hist>>
              ELSE /\ otpSeq' = otpSeq + 1
                   /\ otps' = OTPCreate(otps, otp, otpSeq')
                   /\ hist' = [hist EXCEPT !.log = @ \cup {[otp EXCEPT !.id = otpSeq']},
                                           !.wins = Append(@, 0), !.bad = Append(@, 0),
                                           !.sealed[req[r].phone] = FALSE]
                   /\ ReturnOTPResponse(r, [req[r] EXCEPT !.otp = [otp EXCEPT !.id = otpSeq']])
    /\ UNCHANGED <<now, users, userSeq, calls, quota>>

\* a GenerateOTP that generates and saves the challenge before the rate check
GenerateOTPCountAfterCreate(r, phoneNumber) ==
    /\ Begin(r, "generate")
    /\ \E code \in generateRandomCode(OTPLength) :
          LET rec == [Idle EXCEPT !.op = "generate", !.phone = phoneNumber, !.at = now,
                                  !.code = code]
              since == now - WindowMinutes
              otp == NewOTP(phoneNumber, code, ExpiryMinutes, now)
          IN  IF RateLimitExceeded(GetRecentOTPCount(otps, phoneNumber, since))
                 THEN /\ otpSeq' = otpSeq + 1
                      /\ otps' = OTPCreate(otps, otp, otpSeq')
                      /\ hist' = [hist EXCEPT !.log = @ \cup {[otp EXCEPT !.id = otpSeq']},
                                              !.wins = Append(@, 0), !.bad = Append(@, 0),
                                              !.sealed[phoneNumber] = FALSE]
                      /\ Return(r, rec, ErrRateLimit, NilToken)
                 ELSE /\ Goto(r, rec, "create")
                      /\ UNCHANGED <<otps, otpSeq, hist>>
    /\ UNCHANGED <<now, users, userSeq>>

\* since := now - window; count := GetRecentOTPCount; the rate check;
\* generateRandomCode; windowMinutes is s.config.RateLimit.WindowMinutes
GenerateOTPCountWindow(r, phoneNumber, windowMinutes) ==
    /\ Begin(r, "generate")
    /\ LET rec == [Idle EXCEPT !.op = "generate", !.phone = phoneNumber, !.at = now]
           since == now - windowMinutes
       IN  IF RateLimitExceeded(GetRecentOTPCount(otps, phoneNumber, since))
              THEN Return(r, rec, ErrRateLimit, NilToken)
              ELSE \E code \in generateRandomCode(OTPLength) :
                      Goto(r, [rec EXCEPT !.code = code], "create")
    /\ UNCHANGED <<now, otps, otpSeq, users, userSeq, hist>>

\* GenerateOTP up to its rate check, in the service as configured
GenerateOTPCount(r, phoneNumber) == GenerateOTPCountWindow(r, phoneNumber, WindowMinutes)

\* a GenerateOTP whose response carries the code
GenerateOTPCreateEcho(r) ==
    /\ req[r].op = "generate" /\ req[r].pc = "create"
    /\ LET otp == NewOTP(req[r].phone, req[r].code, ExpiryMinutes, now)
       IN  /\ otpSeq' = otpSeq + 1
           /\ otps' = OTPCreate(otps, otp, otpSeq')
           /\ hist' = [hist EXCEPT !.log = @ \cup {[otp EXCEPT !.id = otpSeq']},
                                   !.wins = Append(@, 0), !.bad = Append(@, 0),
                                   !.sealed[req[r].phone] = FALSE]
           /\ req' = [req EXCEPT ![r] = Idle]
           /\ last' = [Response([req[r] EXCEPT !.otp = [otp EXCEPT !.id = otpSeq']], OK, NilToken)
                          EXCEPT !.body = [message |-> "OTP sent successfully",
                                           expiresIn |-> ExpiryMinutes, code |-> otp.code]]
    /\ UNCHANGED <<now, users, userSeq, calls, quota>>

\* otp := models.NewOTP(...); otpRepo.Create(otp); the response
GenerateOTPCreate(r) ==
    /\ req[r].op = "generate" /\ req[r].pc = "create"
    /\ LET otp == NewOTP(req[r].phone, req[r].code, ExpiryMinutes, now)
       IN  /\ otpSeq' = otpSeq + 1
           /\ otps' = OTPCreate(otps, otp, otpSeq')
           /\ hist' = [hist EXCEPT !.log = @ \cup {[otp EXCEPT !.id = otpSeq']},
                                   !.wins = Append(@, 0), !.bad = Append(@, 0),
                                   !.sealed[req[r].phone] = FALSE]
           /\ ReturnOTPResponse(r, [req[r] EXCEPT !.otp = [otp EXCEPT !.id = otpSeq']])
    /\ UNCHANGED <<now, users, userSeq, calls, quota>>

(***************************************************************************)
(* authService.VerifyOTP                                                   *)
(***************************************************************************)
\* a lookup that consumes the challenge when the submitted code differs
VerifyOTPLookupBurn(r, phoneNumber, code) ==
    /\ Begin(r, "verify")
    /\ LET rec == [Idle EXCEPT !.op = "verify", !.phone = phoneNumber, !.code = code,
                                !.at = now]
           found == GetByPhoneNumber(otps, phoneNumber, now)
       IN  IF found = {}
              THEN /\ Return(r, rec, ErrNoOTP, NilToken)
                   /\ UNCHANGED <<otps, hist>>
              ELSE \E otp \in found :
                      IF otp.code # code
                         THEN /\ Return(r, [rec EXCEPT !.otp = otp], ErrBadCode, NilToken)
                              /\ otps' = MarkAsUsed(otps, phoneNumber)
                              /\ hist' = [hist EXCEPT !.bad[otp.id] = @ + 1]
                         ELSE /\ Goto(r, [rec EXCEPT !.otp = otp], "valid")
                              /\ UNCHANGED <<otps, hist>>
    /\ UNCHANGED <<now, otpSeq, users, userSeq>>

\* a VerifyOTP that goes on whatever code was submitted
VerifyOTPLookupAnyCode(r, phoneNumber, code) ==
    /\ Begin(r, "verify")
    /\ LET rec == [Idle EXCEPT !.op = "verify", !.phone = phoneNumber, !.code = code,
                                !.at = now]
           found == GetByPhoneNumber(otps, phoneNumber, now)
       IN  IF found = {}
              THEN Return(r, rec, ErrNoOTP, NilToken)
              ELSE \E otp \in found : Goto(r, [rec EXCEPT !.otp = otp], "valid")
    /\ UNCHANGED <<now, otps, otpSeq, users, userSeq, hist>>

\* otp := otpRepo.GetByPhoneNumber; otp == nil; otp.Code != verification.Code
VerifyOTPLookup(r, phoneNumber, code) ==
    /\ Begin(r, "verify")
    /\ LET rec == [Idle EXCEPT !.op = "verify", !.phone = phoneNumber, !.code = code,
                                !.at = now]
           found == GetByPhoneNumber(otps, phoneNumber, now)
       IN  IF found = {}
              THEN /\ Return(r, rec, ErrNoOTP, NilToken)
                   /\ hist' = hist
              ELSE \E otp \in found :
                      IF otp.code # code
                         THEN /\ Return(r, [rec EXCEPT !.otp = otp], ErrBadCode, NilToken)
                              /\ hist' = [hist EXCEPT !.bad[otp.id] = @ + 1]
                         ELSE /\ Goto(r, [rec EXCEPT !.otp = otp], "valid")
                              /\ hist' = hist
    /\ UNCHANGED <<now, otps, otpSeq, users, userSeq>>

\* a VerifyOTP that goes on to the user lookup without the MarkAsUsed call
VerifyOTPIsValidSkipMark(r) ==
    /\ req[r].op = "verify" /\ req[r].pc = "valid"
    /\ IF ~IsValid(req[r].otp, now)
          THEN Return(r, req[r], ErrExpired, NilToken)
          ELSE Goto(r, req[r], "getuser")
    /\ UNCHANGED <<now, otps, otpSeq, users, userSeq, calls, quota, hist>>

\* !otp.IsValid(): on the OTP value read by the lookup
VerifyOTPIsValid(r) ==
    /\ req[r].op = "verify" /\ req[r].pc = "valid"
    /\ IF ~IsValid(req[r].otp, now)
          THEN Return(r, req[r], ErrExpired, NilToken)
          ELSE Goto(r, req[r], "mark")
    /\ UNCHANGED <<now, otps, otpSeq, users, userSeq, calls, quota, hist>>

\* a MarkAsUsed that waits while another VerifyOTP for the phone number is at its
\* own MarkAsUsed
VerifyOTPMarkAsUsedWaits(r) ==
    /\ req[r].op = "verify" /\ req[r].pc = "mark"
    /\ \A q \in Procs \ {r} :
          ~(req[q].op = "verify" /\ req[q].pc = "mark" /\ req[q].phone = req[r].phone)
    /\ otps' = MarkAsUsed(otps, req[r].phone)
    /\ hist' = [hist EXCEPT !.sealed[req[r].phone] = TRUE]
    /\ Goto(r, req[r], "getuser")
    /\ UNCHANGED <<now, otpSeq, users, userSeq, calls, quota>>

\* otpRepo.MarkAsUsed(phone)
VerifyOTPMarkAsUsed(r) ==
    /\ req[r].op = "verify" /\ req[r].pc = "mark"
    /\ otps' = MarkAsUsed(otps, req[r].phone)
    /\ hist' = [hist EXCEPT !.sealed[req[r].phone] = TRUE]
    /\ Goto(r, req[r], "getuser")
    /\ UNCHANGED <<now, otpSeq, users, userSeq, calls, quota>>

\* user := userRepo.GetByPhoneNumber(phone); if nil: user = models.NewUser(phone)
VerifyOTPGetUser(r) ==
    /\ req[r].op = "verify" /\ req[r].pc = "getuser"
    /\ LET found == UserGetByPhoneNumber(users, req[r].phone)
       IN  IF found = {}
              THEN /\ userSeq' = userSeq + 1
                   /\ Goto(r, [req[r] EXCEPT !.user = NewUser(req[r].phone, userSeq', now)],
                           "createuser")
              ELSE /\ userSeq' = userSeq
                   /\ \E u \in found : Goto(r, [req[r] EXCEPT !.user = u], "touch")
    /\ UNCHANGED <<now, otps, otpSeq, users, calls, quota, hist>>

\* userRepo.Create(user)
VerifyOTPCreateUser(r) ==
    /\ req[r].op = "verify" /\ req[r].pc = "createuser"
    /\ IF UserInsertAllowed(users, req[r].user)
          THEN /\ users' = UserCreate(users, req[r].user)
               /\ hist' = [hist EXCEPT !.created = @ \cup {req[r].user}]
               /\ Goto(r, [req[r] EXCEPT !.made = TRUE], "touch")
          ELSE /\ users' = users
               /\ hist' = hist
               /\ Return(r, req[r], ErrCreateUser, NilToken)
    /\ UNCHANGED <<now, otps, otpSeq, userSeq, calls, quota>>

\* user.UpdateLastLogin()
VerifyOTPUpdateLastLogin(r) ==
    /\ req[r].op = "verify" /\ req[r].pc = "touch"
    /\ Goto(r, [req[r] EXCEPT !.user = UpdateLastLogin(@, now)], "update")
    /\ UNCHANGED <<now, otps, otpSeq, users, userSeq, calls, quota, hist>>

\* userRepo.Update(user); generateJWT(user); the response
VerifyOTPUpdate(r) ==
    /\ req[r].op = "verify" /\ req[r].pc = "update"
    /\ users' = UserUpdate(users, req[r].user)
    /\ hist' = [hist EXCEPT !.ok[req[r].phone] = @ + 1, !.wins[req[r].otp.id] = @ + 1]
    /\ Return(r, req[r], OK, generateJWT(req[r].user, now))
    /\ UNCHANGED <<now, otps, otpSeq, userSeq, calls, quota>>

(***************************************************************************)
(* userService.Delete                                                      *)
(***************************************************************************)
\* user := userRepo.GetByID(id); user == nil
UserServiceDeleteGet(r, id) ==
    /\ Begin(r, "delete")
    /\ LET rec == [Idle EXCEPT !.op = "delete", !.id = id, !.at = now]
       IN  IF UserGetByID(users, id) = {}
              THEN Return(r, rec, ErrUserNotFound, NilToken)
              ELSE Goto(r, rec, "delete")
    /\ UNCHANGED <<now, otps, otpSeq, users, userSeq, hist>>

\* userRepo.Delete(id)
UserServiceDelete(r) ==
    /\ req[r].op = "delete" /\ req[r].pc = "delete"
    /\ users' = UserDelete(users, req[r].id)
    /\ Return(r, req[r], OK, NilToken)
    /\ UNCHANGED <<now, otps, otpSeq, userSeq, calls, quota, hist>>

\* the codes a client may submit
Codes == generateRandomCode(OTPLength)

\* the user ids a client may name: those drawn so far, and one never drawn
UserIDs == 0..userSeq

\* GenerateOTP and VerifyOTP requests, and time
Core ==
    \/ Tick
    \/ \E r \in Procs, p \in Dialled : GenerateOTPCount(r, p)
    \/ \E r \in Procs : GenerateOTPCreate(r)
    \/ \E r \in Procs, p \in Dialled, c \in Codes : VerifyOTPLookup(r, p, c)
    \/ \E r \in Procs : VerifyOTPIsValid(r)
    \/ \E r \in Procs : VerifyOTPMarkAsUsed(r)
    \/ \E r \in Procs : VerifyOTPGetUser(r)
    \/ \E r \in Procs : VerifyOTPCreateUser(r)
    \/ \E r \in Procs : VerifyOTPUpdateLastLogin(r)
    \/ \E r \in Procs : VerifyOTPUpdate(r)

Next == Core

\* the authentication core: GenerateOTP and VerifyOTP requests, two at a time
Spec == Init /\ [][Next]_vars

(***************************************************************************)
(* The core beside DELETE /users/:id.                                      *)
(***************************************************************************)
InitUsers ==
    Start([generate |-> MaxGenerate, verify |-> MaxVerify, delete |-> MaxDelete, purge |-> 0,
           fault |-> 0, validate |-> 0, random |-> 0, get |-> 0,
           phones |-> MaxPhones, until |-> MaxShortTime])

NextUsers ==
    \/ Core
    \/ \E r \in Procs, id \in UserIDs : UserServiceDeleteGet(r, id)
    \/ \E r \in Procs : UserServiceDelete(r)

SpecUsers == InitUsers /\ [][NextUsers]_vars

(***************************************************************************)
(* Behaviours about the rate limit: enough GenerateOTP invocations to pass *)
(* MaxRequests, with VerifyOTP beside them.                                *)
(***************************************************************************)
InitRate ==
    Start([generate |-> MaxRequests + MaxOverLimit, verify |-> MaxRateVerify, delete |-> 0,
           purge |-> 0, fault |-> 0, validate |-> 0, random |-> 0, get |-> 0,
           phones |-> MaxPhones, until |-> MaxTime])

SpecRate == InitRate /\ [][Next]_vars

(***************************************************************************)
(* Behaviours about two clients: the requests of the rate-limit behaviours, *)
(* made for either phone number.                                           *)
(***************************************************************************)
InitClients ==
    Start([generate |-> MaxRequests + MaxOverLimit, verify |-> MaxRateVerify, delete |-> 0,
           purge |-> 0, fault |-> 0, validate |-> 0, random |-> 0, get |-> 0,
           phones |-> Cardinality(Phones), until |-> MaxShortTime])

SpecClients == InitClients /\ [][Next]_vars

(***************************************************************************)
(* Behaviours about repeated attempts on one challenge: more VerifyOTP      *)
(* invocations than GenerateOTP ones.                                      *)
(***************************************************************************)
InitAttempts ==
    Start([generate |-> 1, verify |-> MaxAttempts + 1, delete |-> 0, purge |-> 0, fault |-> 0,
           validate |-> 0, random |-> 0, get |-> 0,
           phones |-> MaxPhones, until |-> MaxTime])

SpecAttempts == InitAttempts /\ [][Next]_vars

(***************************************************************************)
(* The core beside the housekeeping of the otps table.                     *)
(***************************************************************************)
\* otpRepo.DeleteExpired(): one DELETE statement, run by whoever maintains the
\* table (no service method calls it)
OTPDeleteExpired ==
    /\ calls.purge < quota.purge
    /\ calls' = [calls EXCEPT !.purge = @ + 1]
    /\ otps' = DeleteExpired(otps, now)
    /\ UNCHANGED <<now, otpSeq, users, userSeq, req, last, quota, hist>>

InitPurge ==
    Start([generate |-> MaxGenerate, verify |-> MaxPurgeVerify, delete |-> 0,
           purge |-> MaxPurge, fault |-> 0, validate |-> 0, random |-> 0, get |-> 0,
           phones |-> MaxPhones, until |-> MaxTime])

\* the service runs with a rate-limit window longer than the lifetime of a
\* challenge, as with the defaults (10 and 2 minutes)
NextPurge ==
    \/ Tick
    \/ \E r \in Procs, p \in Dialled : GenerateOTPCountWindow(r, p, PurgeWindowMinutes)
    \/ \E r \in Procs : GenerateOTPCreate(r)
    \/ \E r \in Procs, p \in Dialled, c \in Codes : VerifyOTPLookup(r, p, c)
    \/ \E r \in Procs : VerifyOTPIsValid(r)
    \/ \E r \in Procs : VerifyOTPMarkAsUsed(r)
    \/ \E r \in Procs : VerifyOTPGetUser(r)
    \/ \E r \in Procs : VerifyOTPCreateUser(r)
    \/ \E r \in Procs : VerifyOTPUpdateLastLogin(r)
    \/ \E r \in Procs : VerifyOTPUpdate(r)
    \/ OTPDeleteExpired

SpecPurge == InitPurge /\ [][NextPurge]_vars

\* housekeeping beside enough GenerateOTP invocations to pass MaxRequests
InitPurgeRate ==
    Start([generate |-> MaxRequests + MaxOverLimit, verify |-> MaxPurgeVerify, delete |-> 0,
           purge |-> MaxPurge, fault |-> 0, validate |-> 0, random |-> 0, get |-> 0,
           phones |-> MaxPhones, until |-> MaxTime])

SpecPurgeRate == InitPurgeRate /\ [][NextPurge]_vars

(***************************************************************************)
(* Behaviours about the rate limit in which the GenerateOTP invocations for *)
(* one phone number do not overlap: a client that awaits each response     *)
(* before its next request.                                                *)
(***************************************************************************)
NextSerial ==
    \/ Tick
    \/ \E r \in Procs, p \in Dialled : ~GenerateOTPInFlight(p) /\ GenerateOTPCount(r, p)
    \/ \E r \in Procs : GenerateOTPCreate(r)
    \/ \E r \in Procs, p \in Dialled, c \in Codes : VerifyOTPLookup(r, p, c)
    \/ \E r \in Procs : VerifyOTPIsValid(r)
    \/ \E r \in Procs : VerifyOTPMarkAsUsed(r)
    \/ \E r \in Procs : VerifyOTPGetUser(r)
    \/ \E r \in Procs : VerifyOTPCreateUser(r)
    \/ \E r \in Procs : VerifyOTPUpdateLastLogin(r)
    \/ \E r \in Procs : VerifyOTPUpdate(r)

SpecSerial == InitRate /\ [][NextSerial]_vars

(***************************************************************************)
(* Store calls that fail.  Every call on otpRepo and userRepo returns an   *)
(* error when the database does (connection lost, statement refused); the  *)
(* failed statement has changed no row.  Each service step has a failing   *)
(* twin: `if err != nil { return nil, fmt.Errorf("failed to ...") }`.      *)
(***************************************************************************)
\* one more store call fails
Fails ==
    /\ calls.fault < quota.fault
    /\ calls' = [calls EXCEPT !.fault = @ + 1]
    /\ quota' = quota

\* a new invocation of op in slot r whose first store call fails
BeginFails(r, op) ==
    /\ Free(r)
    /\ calls[op] < quota[op]
    /\ calls.fault < quota.fault
    /\ calls' = [calls EXCEPT ![op] = @ + 1, !.fault = @ + 1]
    /\ quota' = quota

\* otpRepo.GetRecentOTPCount fails
GenerateOTPCountFails(r, phoneNumber) ==
    /\ BeginFails(r, "generate")
    /\ Return(r, [Idle EXCEPT !.op = "generate", !.phone = phoneNumber, !.at = now],
              ErrCheckRateLimit, NilToken)
    /\ UNCHANGED <<now, otps, otpSeq, users, userSeq, hist>>

\* otpRepo.Create fails
GenerateOTPCreateFails(r) ==
    /\ req[r].op = "generate" /\ req[r].pc = "create"
    /\ Fails
    /\ Return(r, req[r], ErrSaveOTP, NilToken)
    /\ UNCHANGED <<now, otps, otpSeq, users, userSeq, hist>>

\* otpRepo.GetByPhoneNumber fails (an error other than sql.ErrNoRows)
VerifyOTPLookupFails(r, phoneNumber, code) ==
    /\ BeginFails(r, "verify")
    /\ Return(r, [Idle EXCEPT !.op = "verify", !.phone = phoneNumber, !.code = code, !.at = now],
              ErrGetOTP, NilToken)
    /\ UNCHANGED <<now, otps, otpSeq, users, userSeq, hist>>

\* a failed MarkAsUsed the service does not look at
VerifyOTPMarkAsUsedFailsIgnored(r) ==
    /\ req[r].op = "verify" /\ req[r].pc = "mark"
    /\ Fails
    /\ Goto(r, req[r], "getuser")
    /\ UNCHANGED <<now, otps, otpSeq, users, userSeq, hist>>

\* otpRepo.MarkAsUsed fails
VerifyOTPMarkAsUsedFails(r) ==
    /\ req[r].op = "verify" /\ req[r].pc = "mark"
    /\ Fails
    /\ Return(r, req[r], ErrMarkAsUsed, NilToken)
    /\ UNCHANGED <<now, otps, otpSeq, users, userSeq, hist>>

\* a failed user lookup after which the service gives the challenge back
VerifyOTPGetUserFailsRollback(r) ==
    /\ req[r].op = "verify" /\ req[r].pc = "getuser"
    /\ Fails
    /\ otps' = {IF o.id = req[r].otp.id THEN [o EXCEPT !.used = FALSE] ELSE o : o \in otps}
    /\ Return(r, req[r], ErrGetUser, NilToken)
    /\ UNCHANGED <<now, otpSeq, users, userSeq, hist>>

\* userRepo.GetByPhoneNumber fails
VerifyOTPGetUserFails(r) ==
    /\ req[r].op = "verify" /\ req[r].pc = "getuser"
    /\ Fails
    /\ otps' = otps
    /\ Return(r, req[r], ErrGetUser, NilToken)
    /\ UNCHANGED <<now, otpSeq, users, userSeq, hist>>

\* userRepo.Create fails
VerifyOTPCreateUserFails(r) ==
    /\ req[r].op = "verify" /\ req[r].pc = "createuser"
    /\ Fails
    /\ Return(r, req[r], ErrCreateUser, NilToken)
    /\ UNCHANGED <<now, otps, otpSeq, users, userSeq, hist>>

\* userRepo.Update fails
VerifyOTPUpdateFails(r) ==
    /\ req[r].op = "verify" /\ req[r].pc = "update"
    /\ Fails
    /\ Return(r, req[r], ErrUpdateUser, NilToken)
    /\ UNCHANGED <<now, otps, otpSeq, users, userSeq, hist>>

InitFaults ==
    Start([generate |-> MaxFaultGenerate, verify |-> MaxFaultVerify, delete |-> 0, purge |-> 0,
           fault |-> MaxFaults, validate |-> 0, random |-> 0, get |-> 0,
           phones |-> MaxPhones, until |-> MaxTime])

NextFaults ==
    \/ Core
    \/ \E r \in Procs, p \in Dialled : GenerateOTPCountFails(r, p)
    \/ \E r \in Procs : GenerateOTPCreateFails(r)
    \/ \E r \in Procs, p \in Dialled, c \in Codes : VerifyOTPLookupFails(r, p, c)
    \/ \E r \in Procs : VerifyOTPMarkAsUsedFails(r)
    \/ \E r \in Procs : VerifyOTPGetUserFails(r)
    \/ \E r \in Procs : VerifyOTPCreateUserFails(r)
    \/ \E r \in Procs : VerifyOTPUpdateFails(r)

SpecFaults == InitFaults /\ [][NextFaults]_vars

(***************************************************************************)
(* Scheduling: a request that has started is run on.                       *)
(***************************************************************************)
\* the next statement of the invocation in slot r, its store call returning a
\* result
Proceed(r) ==
    \/ GenerateOTPCreate(r)
    \/ VerifyOTPIsValid(r)
    \/ VerifyOTPMarkAsUsed(r)
    \/ VerifyOTPGetUser(r)
    \/ VerifyOTPCreateUser(r)
    \/ VerifyOTPUpdateLastLogin(r)
    \/ VerifyOTPUpdate(r)

\* the next statement of the invocation in slot r, its store call returning a
\* result or an error
Continue(r) ==
    \/ Proceed(r)
    \/ GenerateOTPCreateFails(r)
    \/ VerifyOTPMarkAsUsedFails(r)
    \/ VerifyOTPGetUserFails(r)
    \/ VerifyOTPCreateUserFails(r)
    \/ VerifyOTPUpdateFails(r)

\* the goroutine of every request is scheduled and every store call returns
Fairness == \A r \in Procs : WF_vars(Continue(r))

\* the core with failing store calls, every started request run on
SpecLive == InitFaults /\ [][NextFaults]_vars /\ Fairness

\* generateRandomCode fails (rand.Int returns an error) after the rate check passed
GenerateOTPRandomFails(r, phoneNumber) ==
    /\ BeginFails(r, "generate")
    /\ ~RateLimitExceeded(GetRecentOTPCount(otps, phoneNumber, now - WindowMinutes))
    /\ Return(r, [Idle EXCEPT !.op = "generate", !.phone = phoneNumber, !.at = now],
              ErrGenerateOTP, NilToken)
    /\ UNCHANGED <<now, otps, otpSeq, users, userSeq, hist>>

\* every outcome of the two auth routes: the rate limit reached, verifications
\* refused, store calls and the random source failing
InitTransport ==
    Start([generate |-> MaxRequests + MaxOverLimit, verify |-> MaxTransportVerify, delete |-> 0,
           purge |-> 0, fault |-> MaxTransportFaults, validate |-> 0, random |-> 0, get |-> 0,
           phones |-> MaxPhones, until |-> MaxTime])

NextTransport ==
    \/ NextFaults
    \/ \E r \in Procs, p \in Dialled : GenerateOTPRandomFails(r, p)

SpecTransport == InitTransport /\ [][NextTransport]_vars

(***************************************************************************)
(* authService.ValidateToken, as the requests that carry a token call it.  *)
(***************************************************************************)
\* a ValidateToken that also looks the user of the claims up
ValidateTokenRequestChecked(r, tokenString) ==
    /\ Begin(r, "validate")
    /\ LET res == ValidateToken(tokenString, now)
           out == IF UserGetByID(users, res.claims.user_id) = {} THEN InvalidToken ELSE res
       IN  last' = [NoResp EXCEPT !.op = "validate", !.token = tokenString, !.at = now,
                                  !.err = out.err, !.claims = out.claims]
    /\ UNCHANGED <<now, otps, otpSeq, users, userSeq, req, hist>>

\* authService.ValidateToken(tokenString): no store call, one step
ValidateTokenRequest(r, tokenString) ==
    /\ Begin(r, "validate")
    /\ LET res == ValidateToken(tokenString, now)
       IN  last' = [NoResp EXCEPT !.op = "validate", !.token = tokenString, !.at = now,
                                  !.err = res.err, !.claims = res.claims]
    /\ UNCHANGED <<now, otps, otpSeq, users, userSeq, req, hist>>

\* the algorithms of the tokens presented: the HMAC ones, an asymmetric one, none
Algs == HMACAlgs \cup {"RS256", "none"}

\* the keys tokens are signed with
Keys == {Secret, OtherSecret}

\* the claims of the tokens presented
ClaimsSet ==
    [user_id : 1..MaxTokenUser, phone_number : Phones, exp : 0..(MaxTime + JWTExpiryHours)]

\* tokens as a signer issues them
SignedTokens == {SignedString(a, k, c) : a \in Algs, k \in Keys, c \in ClaimsSet}

\* the token strings a client may present: empty, malformed, signed, and signed
\* ones with the payload, the algorithm of the header or the signature replaced
TokenStrings ==
    {NilToken, MalformedToken} \cup SignedTokens
    \cup {[s EXCEPT !.payload = c] : s \in SignedTokens, c \in ClaimsSet}
    \cup {[s EXCEPT !.header.alg = a] : s \in SignedTokens, a \in Algs}
    \cup {[s EXCEPT !.sig = NilToken.sig] : s \in SignedTokens}

InitToken ==
    Start([generate |-> 0, verify |-> 0, delete |-> 0, purge |-> 0, fault |-> 0,
           validate |-> MaxValidate, random |-> 0, get |-> 0,
           phones |-> MaxPhones, until |-> MaxTime])

NextToken ==
    \/ Tick
    \/ /\ calls.validate < quota.validate
       /\ \E r \in Procs, tok \in TokenStrings : ValidateTokenRequest(r, tok)

\* ValidateToken on every token string, at every time
SpecToken == InitToken /\ [][NextToken]_vars

\* the tokens generateJWT yields for the users registered so far, at any time
\* since their registration
MintedTokens == UNION {{generateJWT(u, t) : t \in u.createdAt..now} : u \in hist.created}

\* a minted token altered: signed under another key, another user id or a later
\* expiry written into the payload, the algorithm replaced by none
Altered(tok) ==
    {SignedString("HS256", OtherSecret, tok.payload),
     [tok EXCEPT !.payload.user_id = @ + 1],
     [tok EXCEPT !.payload.exp = @ + 1],
     [SignedString("none", "", tok.payload) EXCEPT !.sig = NilToken.sig]}

InitSessions ==
    Start([generate |-> MaxSessionGenerate, verify |-> MaxSessionVerify,
           delete |-> MaxSessionDelete, purge |-> 0, fault |-> 0,
           validate |-> MaxSessionValidate, random |-> 0, get |-> 0,
           phones |-> MaxPhones, until |-> MaxTime])

NextSessions ==
    \/ NextUsers
    \/ /\ calls.validate < quota.validate
       /\ \E r \in Procs, tok \in MintedTokens : ValidateTokenRequest(r, tok)
    \/ /\ calls.validate < quota.validate
       /\ \E r \in Procs, tok \in UNION {Altered(m) : m \in MintedTokens} :
             ValidateTokenRequest(r, tok)

\* sessions: tokens minted by VerifyOTP are presented, as minted or altered, while
\* GenerateOTP, VerifyOTP and DELETE /users/:id go on
SpecSessions == InitSessions /\ [][NextSessions]_vars

(***************************************************************************)
(* userService: GET /users/:id and DELETE /users/:id, with store calls     *)
(* that may fail, beside sign-ins that come one at a time.                 *)
(***************************************************************************)
\* MaxService*: invocations a behaviour about userService may start
MaxServiceGenerate == 2
MaxServiceVerify == 2
MaxServiceDelete == 1
MaxServiceGet == 1
MaxServiceFaults == 1

\* userService.GetByID(id)
UserServiceGetByID(r, id) ==
    /\ Begin(r, "get")
    /\ LET rec == [Idle EXCEPT !.op = "get", !.id = id, !.at = now]
           found == UserGetByID(users, id)
       IN  IF found = {}
              THEN Return(r, rec, ErrUserNotFound, NilToken)
              ELSE \E u \in found : Return(r, [rec EXCEPT !.user = u], OK, NilToken)
    /\ UNCHANGED <<now, otps, otpSeq, users, userSeq, hist>>

\* userService.GetByID: userRepo.GetByID fails
UserServiceGetByIDFails(r, id) ==
    /\ BeginFails(r, "get")
    /\ Return(r, [Idle EXCEPT !.op = "get", !.id = id, !.at = now], ErrDatabase, NilToken)
    /\ UNCHANGED <<now, otps, otpSeq, users, userSeq, hist>>

\* userService.Delete: userRepo.GetByID fails
UserServiceDeleteGetFails(r, id) ==
    /\ BeginFails(r, "delete")
    /\ Return(r, [Idle EXCEPT !.op = "delete", !.id = id, !.at = now], ErrDatabase, NilToken)
    /\ UNCHANGED <<now, otps, otpSeq, users, userSeq, hist>>

\* userService.Delete: userRepo.Delete fails
UserServiceDeleteFails(r) ==
    /\ req[r].op = "delete" /\ req[r].pc = "delete"
    /\ Fails
    /\ Return(r, req[r], ErrDatabase, NilToken)
    /\ UNCHANGED <<now, otps, otpSeq, users, userSeq, hist>>

\* no request is in flight
Quiet == \A q \in Procs : req[q].pc = "idle"

InitUserService ==
    Start([generate |-> MaxServiceGenerate, verify |-> MaxServiceVerify,
           delete |-> MaxServiceDelete, purge |-> 0, fault |-> MaxServiceFaults,
           validate |-> 0, random |-> 0, get |-> MaxServiceGet,
           phones |-> Cardinality(Phones), until |-> MaxShortTime])

NextUserService ==
    \/ Tick
    \/ \E r \in Procs, p \in Dialled : Quiet /\ GenerateOTPCount(r, p)
    \/ \E r \in Procs : GenerateOTPCreate(r)
    \/ \E r \in Procs, p \in Dialled, c \in Codes : Quiet /\ VerifyOTPLookup(r, p, c)
    \/ \E r \in Procs : VerifyOTPIsValid(r)
    \/ \E r \in Procs : VerifyOTPMarkAsUsed(r)
    \/ \E r \in Procs : VerifyOTPGetUser(r)
    \/ \E r \in Procs : VerifyOTPCreateUser(r)
    \/ \E r \in Procs : VerifyOTPUpdateLastLogin(r)
    \/ \E r \in Procs : VerifyOTPUpdate(r)
    \/ \E r \in Procs, id \in UserIDs : Quiet /\ UserServiceGetByID(r, id)
    \/ \E r \in Procs, id \in UserIDs : Quiet /\ UserServiceGetByIDFails(r, id)
    \/ \E r \in Procs, id \in UserIDs : Quiet /\ UserServiceDeleteGet(r, id)
    \/ \E r \in Procs, id \in UserIDs : Quiet /\ UserServiceDeleteGetFails(r, id)
    \/ \E r \in Procs : UserServiceDelete(r)
    \/ \E r \in Procs : UserServiceDeleteFails(r)

SpecUserService == InitUserService /\ [][NextUserService]_vars

(***************************************************************************)
(* A burst of GenerateOTP requests, two at a time, more of them than the   *)
(* limit and the overlap together let through.                             *)
(***************************************************************************)
MaxBurstGenerate == 5

InitBurst ==
    Start([generate |-> MaxBurstGenerate, verify |-> 0, delete |-> 0, purge |-> 0,
           fault |-> 0, validate |-> 0, random |-> 0, get |-> 0,
           phones |-> MaxPhones, until |-> MaxTime])

NextBurst ==
    \/ Tick
    \/ \E r \in Procs, p \in Dialled : GenerateOTPCount(r, p)
    \/ \E r \in Procs : GenerateOTPCreate(r)

SpecBurst == InitBurst /\ [][NextBurst]_vars

(***************************************************************************)
(* authService.generateRandomCode on its own.                              *)
(***************************************************************************)
\* generateRandomCode(length) returns without an error
GenerateRandomCodeCall(r, length) ==
    /\ Begin(r, "random")
    /\ \E code \in generateRandomCode(length) :
          last' = [NoResp EXCEPT !.op = "random", !.err = OK, !.code = code, !.at = now,
                                 !.length = length]
    /\ UNCHANGED <<now, otps, otpSeq, users, userSeq, req, hist>>

InitCode ==
    Start([generate |-> MaxRandomGenerate, verify |-> 0, delete |-> 0, purge |-> 0,
           fault |-> 0, validate |-> 0, random |-> MaxRandom, get |-> 0,
           phones |-> MaxPhones, until |-> MaxTime])

NextCode ==
    \/ Tick
    \/ \E r \in Procs, p \in Dialled : GenerateOTPCount(r, p)
    \/ \E r \in Procs : GenerateOTPCreate(r)
    \/ \E r \in Procs, length \in 0..MaxLength : GenerateRandomCodeCall(r, length)

\* generateRandomCode for every length, beside GenerateOTP
SpecCode == InitCode /\ [][NextCode]_vars

(***************************************************************************)
(* Vocabulary of the properties                                            *)
(***************************************************************************)
\* the step starts an invocation of op for phone number p
Called(op, p) ==
    /\ calls'[op] = calls[op] + 1
    /\ IF req' = req
          THEN last'.op = op /\ last'.phone = p
          ELSE \E r \in Procs : req'[r] # req[r] /\ req'[r].phone = p

\* the invocation the step starts returns in that same step
ReturnedAtOnce == req' = req

\* the step is the one in which the invocation of slot r returns
Returns(r) == req[r].pc # "idle" /\ req'[r].pc = "idle"

\* challenges ever inserted for phone number p with created_at >= t
IssuedSince(p, t) == {o \in hist.log : o.phone = p /\ o.createdAt >= t}

\* challenges ever inserted for phone number p
Issued(p) == {o \in hist.log : o.phone = p}

(***************************************************************************)
(* C1 and C2: consumption of a challenge                                   *)
(***************************************************************************)
\* C1: every challenge is the basis of at most one successful VerifyOTP, so for
\* each phone number the successful verifications never outnumber the challenges
\* created for it.
C1_ExactlyOnceConsumption ==
    /\ \A i \in DOMAIN hist.wins : hist.wins[i] <= 1
    /\ \A p \in Phones : hist.ok[p] <= Cardinality(Issued(p))

\* C2: of the VerifyOTP calls that hold the same challenge, one returns a session;
\* every other one returns "invalid or expired OTP" or "OTP has expired".
C2_OneConcurrentWinner ==
    [][\A r \in Procs :
          (/\ req[r].op = "verify"
           /\ Returns(r)
           /\ hist.wins[req[r].otp.id] >= 1)
          => last'.err \in {ErrNoOTP, ErrExpired}]_vars

(***************************************************************************)
(* C3, C4, C5: the rate limit                                              *)
(***************************************************************************)
\* C3: a GenerateOTP called when at least MaxRequests challenges of the phone
\* number were created within the window returns the rate-limit error.
C3_RateLimited ==
    [][\A p \in Phones :
          (/\ Called("generate", p)
           /\ Cardinality(IssuedSince(p, now - WindowMinutes)) >= MaxRequests)
          => /\ ReturnedAtOnce
             /\ last'.err = ErrRateLimit]_vars

\* C3 happens: a call was refused with MaxRequests challenges in the window
C3_Witness ==
    /\ last.op = "generate"
    /\ last.err = ErrRateLimit
    /\ last.at = now
    /\ Cardinality(IssuedSince(last.phone, now - WindowMinutes)) = MaxRequests

\* C4: a GenerateOTP that returns the rate-limit error has generated no code,
\* created no challenge and left both tables as they were; nothing of it remains
\* in flight.
C4_RateLimitHardStop ==
    [][\A p \in Phones :
          (Called("generate", p) /\ last'.op = "generate" /\ last'.err = ErrRateLimit)
          => /\ ReturnedAtOnce
             /\ last'.code = <<>>
             /\ last'.otp = 0
             /\ otps' = otps
             /\ otpSeq' = otpSeq
             /\ users' = users
             /\ hist'.log = hist.log]_vars

\* C4 happens: a refused call, with the challenges that caused it still the only
\* ones of the phone number
C4_Witness ==
    /\ last.op = "generate"
    /\ last.err = ErrRateLimit
    /\ Cardinality({o \in otps : o.phone = last.phone}) = MaxRequests
    /\ \A r \in Procs : req[r].pc = "idle"

\* C5: a GenerateOTP called when fewer than MaxRequests challenges of the phone
\* number were created at or after now - window passes the rate check, and then
\* creates a challenge and succeeds.
C5_RecoversByTime ==
    /\ [][\A p \in Phones :
             (/\ Called("generate", p)
              /\ Cardinality(IssuedSince(p, now - WindowMinutes)) < MaxRequests)
             => \E r \in Procs :
                   /\ req'[r].op = "generate" /\ req'[r].pc = "create"
                   /\ req'[r].phone = p]_vars
    /\ [][\A r \in Procs :
             (req[r].op = "generate" /\ Returns(r))
             => /\ last'.err = OK
                /\ \E o \in otps' \ otps :
                      /\ o.phone = req[r].phone /\ o.id = last'.otp
                      /\ otps' = otps \cup {o}]_vars

\* C5 happens: a phone number that had MaxRequests challenges in one window got
\* a further one after that window had passed
C5_Witness ==
    /\ last.op = "generate"
    /\ last.err = OK
    /\ \E o \in hist.log :
          /\ o.id = last.otp
          /\ Cardinality({x \in Issued(last.phone) :
                             x.createdAt + WindowMinutes < o.createdAt}) >= MaxRequests

(***************************************************************************)
(* C6, C7, C8: which challenge a verification accepts                      *)
(***************************************************************************)
\* C6: a VerifyOTP holds or succeeds on a challenge only if it was issued before
\* that challenge's expiry, and one issued when every challenge of the phone
\* number is past its expiry returns "invalid or expired OTP".
C6_NoSuccessAfterExpiry ==
    /\ \A r \in Procs :
          (req[r].op = "verify" /\ req[r].pc # "idle") => req[r].at < req[r].otp.expiresAt
    /\ (last.op = "verify" /\ last.err = OK)
          => \E o \in hist.log :
                o.id = last.otp /\ o.phone = last.phone /\ last.at < o.expiresAt
    /\ (last.op = "verify" /\ \A o \in Issued(last.phone) : o.expiresAt <= last.at)
          => last.err = ErrNoOTP

\* C6 happens: the right code of an unconsumed challenge, submitted at the very
\* instant of its expiry, was refused
C6_Witness ==
    /\ last.op = "verify"
    /\ last.err = ErrNoOTP
    /\ \E o \in otps :
          /\ o.phone = last.phone /\ o.code = last.code
          /\ ~o.used /\ o.expiresAt = last.at

\* C7: once MarkAsUsed has run for a phone number and no challenge has been
\* created for it since, every VerifyOTP for it returns "invalid or expired OTP".
C7_ResubmitFails ==
    [][\A p \in Phones :
          (Called("verify", p) /\ hist.sealed[p])
          => /\ ReturnedAtOnce
             /\ last'.err = ErrNoOTP]_vars

\* C7 happens: the code that had just brought a session was submitted again,
\* before its challenge expired, and was refused
C7_Witness ==
    /\ last.op = "verify"
    /\ last.err = ErrNoOTP
    /\ hist.sealed[last.phone]
    /\ hist.ok[last.phone] >= 1
    /\ \E o \in otps :
          /\ o.phone = last.phone /\ o.code = last.code
          /\ hist.wins[o.id] >= 1
          /\ last.at < o.expiresAt

\* C8: from MarkAsUsed until the next challenge of the phone number is created,
\* no row of that phone number has used = false.
C8_ConsumesAllOutstanding ==
    \A p \in Phones :
       hist.sealed[p] => \A o \in otps : o.phone = p => o.used

\* C8 happens: an older challenge with another code, never verified and not yet
\* expired, is consumed beside the one that was verified
C8_Witness ==
    \E a, b \in otps :
       /\ a.phone = b.phone /\ a.id < b.id /\ a.code # b.code
       /\ hist.sealed[a.phone]
       /\ hist.wins[b.id] >= 1 /\ hist.wins[a.id] = 0
       /\ a.used /\ b.used
       /\ now < a.expiresAt

(***************************************************************************)
(* C9, C10: register-or-login                                              *)
(***************************************************************************)
\* C9: the users table holds at most one row per phone number.
C9_OneUserPerPhone ==
    \A u1, u2 \in users : u1.phone = u2.phone => u1 = u2

\* C9 happens: two verifications raced to register one phone number and the
\* second insert was refused
C9_Witness ==
    /\ last.op = "verify"
    /\ last.err = ErrCreateUser
    /\ Cardinality(UserGetByPhoneNumber(users, last.phone)) = 1

\* the insert of a VerifyOTP that found no user: when the phone number still has
\* no row, the insert succeeds and adds exactly one row, for that phone number
C10_Create ==
    \A r \in Procs :
       (/\ req[r].op = "verify" /\ req[r].pc = "createuser"
        /\ req'[r] # req[r]
        /\ UserGetByPhoneNumber(users, req[r].phone) = {})
       => /\ req'[r].pc = "touch"
          /\ req'[r].made
          /\ req[r].user.phone = req[r].phone
          /\ users' = users \cup {req[r].user}
          /\ UserGetByPhoneNumber(users', req[r].phone) = {req[r].user}

\* a VerifyOTP that has registered the user returns a session
C10_Returns ==
    \A r \in Procs :
       (req[r].op = "verify" /\ req[r].made /\ Returns(r))
       => last'.err = OK /\ last'.made /\ last'.token # NilToken

\* the session of a VerifyOTP that registered the user: the token carries the id
\* and phone number of the row it inserted, and the response user is that user
C10_Response ==
    (last.op = "verify" /\ last.err = OK /\ last.made)
       => /\ last.user.phone = last.phone
          /\ last.token.payload.user_id = last.user.id
          /\ last.token.payload.phone_number = last.phone
          /\ \E u \in hist.created : u.id = last.token.payload.user_id /\ u.phone = last.token.payload.phone_number
          /\ Cardinality({u \in hist.created : u.id = last.token.payload.user_id}) = 1

\* C10: a VerifyOTP with the right code for a phone number without a user
\* creates exactly one user row for it and returns a token whose claims are the
\* id and phone number of that row; the response user has the verified phone.
C10_RegistersNewUser == []C10_Response /\ [][C10_Create /\ C10_Returns]_vars

\* C10 happens: a first verification returned a session and the table holds the
\* one row the token names
C10_Witness ==
    /\ last.op = "verify"
    /\ last.err = OK
    /\ last.made
    /\ \E u \in users :
          /\ UserGetByPhoneNumber(users, last.phone) = {u}
          /\ u.id = last.token.payload.user_id /\ u.phone = last.token.payload.phone_number

\* the ids of the rows of a users table
UserRowIDs(rows) == {u.id : u \in rows}

\* user rows ever inserted for phone number p
Registered(p) == {u \in hist.created : u.phone = p}

\* C11: a VerifyOTP that found the user of the phone number adds no user row at
\* any of its steps and answers with the id it found; its Update leaves the row
\* of that id, when a concurrent Delete has not removed it, with last_login_at
\* and updated_at equal to the time of its UpdateLastLogin, which lies within
\* the invocation.
C11_ExistingUserLogin ==
    [][\A r \in Procs :
          (/\ req[r].op = "verify" /\ ~req[r].made
           /\ req[r].pc \in {"touch", "update"}
           /\ req'[r] # req[r])
          => /\ UserRowIDs(users') = UserRowIDs(users)
             /\ Cardinality(users') = Cardinality(users)
             /\ req[r].pc = "update"
                => /\ last'.err = OK
                   /\ last'.user.id = req[r].user.id
                   /\ last'.token.payload.user_id = req[r].user.id
                   /\ req[r].at <= req[r].user.lastLoginAt
                   /\ req[r].user.lastLoginAt <= now
                   /\ \A x \in users :
                         x.id = req[r].user.id
                         => \E y \in users' :
                               /\ y.id = x.id /\ y.phone = x.phone
                               /\ y.createdAt = x.createdAt
                               /\ y.lastLoginAt = req[r].user.lastLoginAt
                               /\ y.updatedAt = req[r].user.lastLoginAt]_vars

\* C11 happens: a session for a user registered at an earlier time; the one row
\* of the phone number has the old id and the time of this login
C11_Witness ==
    /\ last.op = "verify" /\ last.err = OK /\ ~last.made
    /\ Cardinality(Registered(last.phone)) = 1
    /\ \E u \in users :
          /\ UserGetByPhoneNumber(users, last.phone) = {u}
          /\ u \notin hist.created
          /\ u.id = last.user.id
          /\ u.createdAt < u.lastLoginAt
          /\ u.lastLoginAt = last.user.lastLoginAt
          /\ u.updatedAt = u.lastLoginAt

\* C12 as stated: over GenerateOTP, VerifyOTP and Delete, user creation
\* succeeds at most once per phone number.
C12_CreateOncePerPhone ==
    \A p \in Phones : Cardinality(Registered(p)) <= 1

\* C12, amended: user creation succeeds for a phone number only when every row
\* created for it earlier has been deleted, rows leave the table only through
\* the user service's Delete, and as long as no Delete has been called creation
\* has succeeded at most once per phone number.
C12_CreateOncePerRegistration ==
    /\ [](calls.delete = 0 => C12_CreateOncePerPhone)
    /\ [][/\ \A u \in hist'.created \ hist.created :
                \A x \in Registered(u.phone) : x.id \notin UserRowIDs(users)
          /\ ~(UserRowIDs(users) \subseteq UserRowIDs(users'))
                => \E r \in Procs :
                      /\ req[r].op = "delete" /\ req[r].pc = "delete"
                      /\ Returns(r)
                      /\ UserRowIDs(users) \ UserRowIDs(users') = {req[r].id}]_vars

\* C12 happens: a phone number registered, deleted and registered again
C12_Witness ==
    \E p \in Phones :
       /\ Cardinality(Registered(p)) = 2
       /\ Cardinality(UserGetByPhoneNumber(users, p)) = 1
       /\ calls.delete >= 1

(***************************************************************************)
(* C13, C14, C15: the code comparison and the newest challenge             *)
(***************************************************************************)
\* C13: a VerifyOTP whose code differs from the code of the newest valid
\* challenge returns "invalid OTP code" and changes no challenge row and no user
\* row; one whose code is that challenge's code passes the lookup whatever the
\* number of wrong attempts before it, and then fails only by "OTP has expired",
\* when the clock has passed the expiry, or by losing the insert of the user to a
\* concurrent VerifyOTP.
C13_WrongCodeChangesNothing ==
    [][/\ \A p \in Phones, c \in Codes :
             (/\ Called("verify", p)
              /\ (ReturnedAtOnce => last'.code = c)
              /\ (\A r \in Procs : req'[r] # req[r] => req'[r].code = c)
              /\ GetByPhoneNumber(otps, p, now) # {})
             => IF \A o \in GetByPhoneNumber(otps, p, now) : o.code # c
                   THEN /\ ReturnedAtOnce
                        /\ last'.err = ErrBadCode
                        /\ otps' = otps /\ otpSeq' = otpSeq
                        /\ users' = users /\ userSeq' = userSeq
                   ELSE (\A o \in GetByPhoneNumber(otps, p, now) : o.code = c)
                        => \E r \in Procs :
                              /\ req'[r].op = "verify" /\ req'[r].pc = "valid"
                              /\ req'[r].otp \in GetByPhoneNumber(otps, p, now)
       /\ \A r \in Procs :
             (req[r].op = "verify" /\ Returns(r))
             => \/ last'.err = OK
                \/ last'.err = ErrExpired /\ now > req[r].otp.expiresAt
                \/ /\ last'.err = ErrCreateUser
                   /\ UserGetByPhoneNumber(users, req[r].phone) # {}]_vars

\* C13 happens: the right code brought a session on a challenge that MaxAttempts
\* wrong codes had been tried on
C13_Witness ==
    /\ last.op = "verify" /\ last.err = OK
    /\ hist.bad[last.otp] = MaxAttempts
    /\ hist.wins[last.otp] = 1

\* C14: the challenge a VerifyOTP goes on with is one no valid challenge of the
\* phone number is newer than, and a session is given on the challenge the call
\* went on with; so a VerifyOTP with the code of an older pending challenge,
\* which the newest one does not have, returns "invalid OTP code".
C14_OnlyNewestReachable ==
    [][/\ \A r \in Procs :
             (req[r].pc = "idle" /\ req'[r].op = "verify")
             => LET o == req'[r].otp
                IN  /\ o \in ValidOTPs(otps, req'[r].phone, now)
                    /\ o.code = req'[r].code
                    /\ \A o2 \in ValidOTPs(otps, req'[r].phone, now) :
                          o2.createdAt <= o.createdAt
       /\ \A r \in Procs :
             (req[r].op = "verify" /\ req'[r] # req[r])
             => IF Returns(r)
                   THEN last'.otp = req[r].otp.id
                   ELSE req'[r].otp = req[r].otp
       /\ \A p \in Phones :
             (/\ Called("verify", p)
              /\ \E a, b \in ValidOTPs(otps, p, now) :
                    /\ a.createdAt < b.createdAt
                    /\ \A o \in GetByPhoneNumber(otps, p, now) : o.code # a.code
                    /\ IF ReturnedAtOnce
                          THEN last'.code = a.code
                          ELSE \E r \in Procs : req'[r] # req[r] /\ req'[r].code = a.code)
             => /\ ReturnedAtOnce
                /\ last'.err = ErrBadCode]_vars

\* C14 happens: the code of an older challenge, still unconsumed and unexpired,
\* was refused because a newer challenge with another code was pending
C14_Witness ==
    /\ last.op = "verify" /\ last.err = ErrBadCode
    /\ \E a, b \in otps :
          /\ a.phone = last.phone /\ b.phone = last.phone
          /\ b.id = last.otp
          /\ a.createdAt < b.createdAt
          /\ a.code = last.code /\ b.code # last.code
          /\ ~a.used /\ ~b.used
          /\ last.at < a.expiresAt

\* the instants of the clock
Times == 0..MaxTime

\* C15: for every phone number and instant, on every table the service reaches,
\* GetByPhoneNumber returns a row of that phone number with used = false and
\* expires_at > now than which no such row was created later, returns no row
\* exactly when there is no such row, and returns the same on the table without
\* the rows of the other phone numbers.
C15_LatestValid ==
    \A p \in Phones, t \in Times :
       LET res == GetByPhoneNumber(otps, p, t)
           qualifying == {o \in otps : o.phone = p /\ o.used = FALSE /\ o.expiresAt > t}
       IN  /\ res \subseteq qualifying
           /\ \A o \in res, o2 \in qualifying : o2.createdAt <= o.createdAt
           /\ (res = {}) <=> (qualifying = {})
           /\ res = GetByPhoneNumber({o \in otps : o.phone = p}, p, t)

\* C15 happens: a phone number with two valid challenges of different creation
\* times, of which the lookup returns the newer one alone, while another phone
\* number holds a valid challenge inserted later still
C15_Witness ==
    \E a, b, c \in otps :
       /\ a.phone = b.phone /\ c.phone # a.phone
       /\ a.createdAt < b.createdAt /\ b.createdAt <= c.createdAt /\ b.id < c.id
       /\ ~a.used /\ ~b.used /\ ~c.used
       /\ now < a.expiresAt
       /\ GetByPhoneNumber(otps, a.phone, now) = {b}

(***************************************************************************)
(* C16, C17: the lifecycle of a challenge row                              *)
(***************************************************************************)
\* C16: every step leaves each challenge row with its id, phone number, code,
\* creation time and expiry, and used once true stays true; a row that the
\* lookup would not return for want of used = false or expires_at > now is not
\* returned after the step either.
C16_MonotoneLifecycle ==
    [][\A o \in otps :
          \E o2 \in otps' :
             /\ o2.id = o.id
             /\ o2.phone = o.phone /\ o2.code = o.code
             /\ o2.createdAt = o.createdAt /\ o2.expiresAt = o.expiresAt
             /\ o.used => o2.used
             /\ (o.used \/ o.expiresAt <= now)
                => /\ o2.used \/ o2.expiresAt <= now'
                   /\ \A t \in Times :
                         t >= now' => o2 \notin GetByPhoneNumber(otps', o2.phone, t)]_vars

\* C16 happens: a consumed challenge and an expired, never consumed one, each
\* otherwise as it was inserted
C16_Witness ==
    \E a, b \in otps :
       /\ a.used /\ hist.wins[a.id] >= 1
       /\ ~b.used /\ b.expiresAt <= now
       /\ [a EXCEPT !.used = FALSE] \in hist.log
       /\ b \in hist.log

\* the ids of the rows of an otps table
OTPRowIDs(rows) == {o.id : o \in rows}

\* C17: no step of GenerateOTP or VerifyOTP removes a challenge row: a row
\* leaves the table only in a DeleteExpired, which removes the rows with
\* expires_at < now and no other.
C17_OnlyDeleteExpiredRemoves ==
    [][IF calls'.purge = calls.purge
          THEN OTPRowIDs(otps) \subseteq OTPRowIDs(otps')
          ELSE /\ req' = req
               /\ otps' \subseteq otps
               /\ \A o \in otps : o \notin otps' <=> o.expiresAt < now]_vars

\* C17 happens: GenerateOTP and VerifyOTP calls have run to their end around a
\* DeleteExpired; the consumed row is one DeleteExpired removed, and a row
\* inserted after a removed one is still there
C17_Witness ==
    /\ calls.purge >= 1
    /\ \A r \in Procs : req[r].pc = "idle"
    /\ \E l \in hist.log : l.id \notin OTPRowIDs(otps) /\ hist.wins[l.id] >= 1
    /\ \E o \in otps : \E l \in hist.log : l.id < o.id /\ l.id \notin OTPRowIDs(otps)

(***************************************************************************)
(* C18, C19, C20: what the rate limit counts and bounds                    *)
(***************************************************************************)
\* the instants `since` can take
Sinces == (0 - WindowMinutes)..MaxTime

\* C18: for every phone number and every start of window, GetRecentOTPCount is
\* the number of challenges inserted for the phone number since then, consumed
\* and expired ones included; so a GenerateOTP called when MaxRequests challenges
\* were created in the window and none of them is valid any more is refused.
C18_CountsRequestsIssued ==
    /\ [](\A p \in Phones, t \in Sinces :
             GetRecentOTPCount(otps, p, t) = Cardinality(IssuedSince(p, t)))
    /\ [][\A p \in Phones, t \in Sinces :
             GetRecentOTPCount(otps', p, t) >= GetRecentOTPCount(otps, p, t)]_vars
    /\ [][\A p \in Phones :
             (/\ Called("generate", p)
              /\ Cardinality(IssuedSince(p, now - WindowMinutes)) >= MaxRequests
              /\ \A o \in otps : o.phone = p => (o.used \/ o.expiresAt <= now))
             => /\ ReturnedAtOnce
                /\ last'.err = ErrRateLimit]_vars

\* C18 happens: a GenerateOTP refused although the phone number has no valid
\* challenge left: one was consumed by a session and one has expired
C18_Witness ==
    /\ last.op = "generate" /\ last.err = ErrRateLimit /\ last.at = now
    /\ hist.ok[last.phone] >= 1
    /\ \A o \in otps : o.phone = last.phone => (o.used \/ o.expiresAt <= now)
    /\ \E o \in otps : o.phone = last.phone /\ o.used
    /\ \E o \in otps : o.phone = last.phone /\ ~o.used /\ o.expiresAt <= now

\* challenges inserted for phone number p with created_at from t to t + window
IssuedInSpan(p, t) ==
    {o \in hist.log : o.phone = p /\ t <= o.createdAt /\ o.createdAt <= t + WindowMinutes}

\* C19: nothing holds back the insert of a GenerateOTP that has passed the rate
\* check: it inserts its challenge and succeeds even when, by then, the count for
\* the phone number has reached MaxRequests.
C19_SoftLimit ==
    [][\A r \in Procs :
          (/\ req[r].op = "generate" /\ req[r].pc = "create"
           /\ req'[r] # req[r])
          => /\ last'.err = OK
             /\ \E o \in otps' \ otps : o.phone = req[r].phone /\ o.createdAt = now
             /\ Cardinality(otps') = Cardinality(otps) + 1]_vars

\* C19 happens: two overlapping GenerateOTP calls both passed the check, and the
\* phone number has MaxRequests + 1 challenges created within one window
C19_Witness ==
    \E p \in Phones, t \in Times :
       /\ Cardinality(IssuedInSpan(p, t)) > MaxRequests
       /\ last.op = "generate" /\ last.phone = p /\ last.err = OK

\* C20: when the GenerateOTP calls for a phone number do not overlap, no span of
\* one window (both ends included) holds more than MaxRequests challenges created
\* for it.
C20_BoundedRequestRate ==
    \A p \in Phones, t \in Times :
       Cardinality(IssuedInSpan(p, t)) <= MaxRequests

\* C20 happens: MaxRequests + 1 GenerateOTP calls for a phone number succeeded,
\* the last of them after the window of the first had passed
C20_Witness ==
    \E p \in Phones :
       /\ Cardinality(Issued(p)) = MaxRequests + 1
       /\ calls.generate = MaxRequests + 1
       /\ \A r \in Procs : req[r].pc = "idle"

(***************************************************************************)
(* C21, C22: store calls that fail                                         *)
(***************************************************************************)
\* the errors of the VerifyOTP steps that follow MarkAsUsed
LaterStepErrors == {ErrGetUser, ErrCreateUser, ErrUpdateUser}

\* C21: a VerifyOTP that fails in a step after its MarkAsUsed returns that step's
\* error and no session, and un-marks nothing: the otps table is as the step found
\* it, the challenge of the call is used in it, and no lookup of a VerifyOTP called
\* from then on returns a used challenge.
C21_NoRollback ==
    [][/\ \A r \in Procs :
             (/\ req[r].op = "verify"
              /\ req[r].pc \in {"getuser", "createuser", "touch", "update"}
              /\ Returns(r)
              /\ last'.err # OK)
             => /\ last'.err \in LaterStepErrors
                /\ last'.token = NilToken
                /\ otps' = otps
                /\ \A o \in otps' : o.id = req[r].otp.id => o.used
       /\ \A p \in Phones :
             Called("verify", p)
             => \A o \in otps :
                   o.used => (o.id # last'.otp /\ \A r \in Procs : req'[r].otp.id # o.id
                                                                  \/ req'[r] = req[r])]_vars

\* a VerifyOTP of the right code failed at the user store after MarkAsUsed; the
\* same code, submitted again within the challenge's lifetime, got
\* "invalid or expired OTP", and the phone number has no session and no user
C21_Witness ==
    /\ last.op = "verify" /\ last.err = ErrNoOTP
    /\ calls.fault >= 1
    /\ \A r \in Procs : req[r].pc = "idle"
    /\ hist.sealed[last.phone] /\ hist.ok[last.phone] = 0
    /\ UserGetByPhoneNumber(users, last.phone) = {}
    /\ \E o \in otps :
          /\ o.phone = last.phone /\ o.code = last.code
          /\ o.used /\ o.expiresAt > now

\* the error GenerateOTP and VerifyOTP return when the store call of step pc fails
StoreError(op, pc) ==
    CASE op = "generate" /\ pc = "idle" -> ErrCheckRateLimit
      [] op = "generate" /\ pc = "create" -> ErrSaveOTP
      [] op = "verify" /\ pc = "idle" -> ErrGetOTP
      [] op = "verify" /\ pc = "mark" -> ErrMarkAsUsed
      [] op = "verify" /\ pc = "getuser" -> ErrGetUser
      [] op = "verify" /\ pc = "createuser" -> ErrCreateUser
      [] op = "verify" /\ pc = "update" -> ErrUpdateUser
      [] OTHER -> Pending

\* C22: a store call that fails inside GenerateOTP or VerifyOTP ends the invocation
\* in that step: it returns the error of the step, never a success, with no token
\* and no user; the call is not made again and no table is changed.
C22_NoFailureSwallowed ==
    [][calls'.fault = calls.fault + 1
       => /\ \/ /\ ReturnedAtOnce
                /\ \E op \in {"generate", "verify"} :
                      /\ calls'[op] = calls[op] + 1
                      /\ last'.op = op
                      /\ last'.err = StoreError(op, "idle")
             \/ \E r \in Procs :
                   /\ Returns(r)
                   /\ \A q \in Procs \ {r} : req'[q] = req[q]
                   /\ last'.op = req[r].op
                   /\ last'.err = StoreError(req[r].op, req[r].pc)
          /\ last'.err \notin {OK, Pending}
          /\ last'.token = NilToken /\ last'.user = NilUser
          /\ otps' = otps /\ otpSeq' = otpSeq /\ users' = users]_vars

\* MarkAsUsed failed in a VerifyOTP of the right code: the call returned
\* "failed to mark OTP as used", and the challenge is still unused
C22_Witness ==
    /\ last.op = "verify" /\ last.err = ErrMarkAsUsed
    /\ hist.ok[last.phone] = 0
    /\ \E o \in otps : o.id = last.otp /\ o.code = last.code /\ ~o.used

(***************************************************************************)
(* C23, C24, C25: tokens                                                   *)
(***************************************************************************)
\* C23: ValidateToken on the token generateJWT yields for a user returns claims
\* with the user's id and phone number at every time before the token's expiry
\* (mint time + JWT lifetime), and an error from the expiry on; on that token
\* altered or signed under another key it returns an error.
C23_TokenRoundTrip ==
    last.op = "validate"
    => \A u \in hist.created, t0 \in 0..last.at :
          LET tok == generateJWT(u, t0)
          IN  /\ last.token = tok
                 => IF last.at < t0 + JWTExpiryHours
                       THEN /\ last.err = OK
                            /\ last.claims.user_id = u.id
                            /\ last.claims.phone_number = u.phone
                       ELSE last.err = ErrInvalidToken /\ last.claims = NilClaims
              /\ last.token \in Altered(tok)
                 => last.err = ErrInvalidToken /\ last.claims = NilClaims

\* the token generateJWT yields for a stored user was validated at a later instant
\* within its lifetime and gave the user's id and phone number
C23_Witness ==
    /\ last.op = "validate" /\ last.err = OK
    /\ \E u \in users, t0 \in 0..now :
          /\ t0 < last.at
          /\ last.token = generateJWT(u, t0)
          /\ last.claims.user_id = u.id /\ last.claims.phone_number = u.phone

\* the tokens a holder of the configured secret issues with an HMAC algorithm
IssuedUnderSecret == {SignedString(a, Secret, c) : a \in HMACAlgs, c \in ClaimsSet}

\* C24: ValidateToken returns an error and no claims for every token that is empty,
\* malformed, of a non-HMAC algorithm, not signed under the configured secret, or
\* at or past its expiry.
C24_RejectsInvalidTokens ==
    last.op = "validate"
    => ((\/ last.token.form # "jwt"
         \/ last.token.header.alg \notin HMACAlgs
         \/ last.token \notin IssuedUnderSecret
         \/ last.at >= last.token.payload.exp)
        => last.err = ErrInvalidToken /\ last.claims = NilClaims)

\* a token signed HS256 under the configured secret whose payload was then given a
\* later expiry was presented before that expiry and was refused
C24_Witness ==
    /\ last.op = "validate" /\ last.err = ErrInvalidToken
    /\ last.token.form = "jwt" /\ last.token.header.alg = "HS256"
    /\ last.token.sig.key = Secret /\ last.token.sig.alg = "HS256"
    /\ last.token.sig.payload.exp < last.token.payload.exp
    /\ last.at < last.token.payload.exp

\* C25: the result of ValidateToken is a function of the token, the configured key
\* and the time of the call; a token minted for a user is accepted until its
\* expiry whatever the users and otps tables hold by then.
C25_NoRevocation ==
    last.op = "validate"
    => /\ last.err = ValidateToken(last.token, last.at).err
       /\ last.claims = ValidateToken(last.token, last.at).claims
       /\ \A u \in hist.created, t0 \in 0..last.at :
             (last.token = generateJWT(u, t0) /\ last.at < t0 + JWTExpiryHours)
             => last.err = OK /\ last.claims.user_id = u.id

\* the token of a registered user was accepted after the user had been deleted,
\* with every challenge of the phone number consumed
C25_Witness ==
    /\ last.op = "validate" /\ last.err = OK
    /\ \E u \in hist.created : last.token \in {generateJWT(u, t0) : t0 \in 0..now}
    /\ UserGetByID(users, last.claims.user_id) = {}
    /\ UserGetByPhoneNumber(users, last.claims.phone_number) = {}
    /\ \A o \in otps : o.phone = last.claims.phone_number => o.used

(***************************************************************************)
(* C26, C27: what a successful GenerateOTP does and returns                *)
(***************************************************************************)
\* C26: a GenerateOTP that succeeds adds exactly one row to the otps table, for the
\* requested phone number, with a code of the configured length, unused and
\* expiring one lifetime after its creation; it changes no row that was there and
\* no user, and returns "OTP sent successfully" with the configured expiry minutes.
C26_GenerateAddsOneRow ==
    [][\A r \in Procs :
          (req[r].op = "generate" /\ Returns(r) /\ last'.err = OK)
          => /\ \E o \in otps' :
                   /\ otps' = otps \cup {o}
                   /\ \A x \in otps : x.id # o.id
                   /\ o.phone = req[r].phone
                   /\ o.code \in [1..OTPLength -> 0..9]
                   /\ ~o.used
                   /\ o.createdAt = now
                   /\ o.expiresAt = o.createdAt + ExpiryMinutes
             /\ users' = users
             /\ last'.body.message = "OTP sent successfully"
             /\ last'.body.expiresIn = ExpiryMinutes]_vars

\* a GenerateOTP succeeded for a phone number that had a consumed challenge and a
\* user: the earlier row is still there, used, beside the new unused one
C26_Witness ==
    /\ last.op = "generate" /\ last.err = OK
    /\ \E o \in otps, x \in otps :
          /\ o.id = last.otp /\ ~o.used /\ o.expiresAt = o.createdAt + ExpiryMinutes
          /\ x.phone = o.phone /\ x.id < o.id /\ x.used
    /\ UserGetByPhoneNumber(users, last.phone) # {}

\* the response of a successful GenerateOTP has a message and expiry minutes, and
\* nothing else
C27_Body ==
    (last.op = "generate" /\ last.err = OK) => DOMAIN last.body = {"message", "expiresIn"}

\* two successful GenerateOTP calls, one returning after the other, return the same
\* response
C27_SameResponse ==
    (/\ last.op = "generate" /\ last.err = OK
     /\ last'.op = "generate" /\ last'.err = OK)
    => last'.body = last.body

\* C27: the response of a successful GenerateOTP does not carry the code: it is
\* one and the same for every code generated.
C27_CodeNotReturned == []C27_Body /\ [][C27_SameResponse]_vars

\* two GenerateOTP calls drew different codes and the second has returned its
\* response
C27_Witness ==
    /\ last.op = "generate" /\ last.err = OK
    /\ \E o \in hist.log, x \in hist.log :
          o.id = last.otp /\ x.id = o.id - 1 /\ x.code # o.code

(***************************************************************************)
(* C28: phone numbers do not interfere                                     *)
(***************************************************************************)
\* the rows of a table that belong to phone number p
OwnRows(rows, p) == {x \in rows : x.phone = p}

\* the step is one of a GenerateOTP or VerifyOTP for phone number p
StepOf(p) ==
    \/ Called("generate", p)
    \/ Called("verify", p)
    \/ \E r \in Procs :
          /\ req[r].op \in {"generate", "verify"} /\ req[r].phone = p
          /\ req'[r] # req[r]

\* C28: a step of GenerateOTP or VerifyOTP for phone number a leaves the challenge
\* rows, the rate-limit count, the latest valid challenge and the user row of every
\* other phone number as they were; and what the step does is what it would do on
\* the rows of a alone.
C28_NoInterference ==
    [][\A a \in Phones :
          StepOf(a)
          => /\ \A b \in Phones \ {a} :
                   /\ OwnRows(otps', b) = OwnRows(otps, b)
                   /\ OwnRows(users', b) = OwnRows(users, b)
                   /\ \A t \in Sinces :
                         GetRecentOTPCount(otps', b, t) = GetRecentOTPCount(otps, b, t)
                   /\ GetByPhoneNumber(otps', b, now) = GetByPhoneNumber(otps, b, now)
             /\ Called("generate", a)
                => (ReturnedAtOnce
                    <=> RateLimitExceeded(GetRecentOTPCount(OwnRows(otps, a), a,
                                                            now - WindowMinutes)))
             /\ Called("verify", a)
                => LET found == GetByPhoneNumber(OwnRows(otps, a), a, now)
                   IN  /\ (ReturnedAtOnce /\ last'.err = ErrNoOTP) <=> found = {}
                       /\ found # {}
                          => \E o \in found :
                                \/ ReturnedAtOnce /\ last'.otp = o.id
                                \/ \E r \in Procs : req'[r] # req[r] /\ req'[r].otp = o
             /\ \A r \in Procs :
                   (req[r].op = "verify" /\ req[r].phone = a /\ req'[r] # req[r])
                   => /\ req[r].pc = "getuser"
                         => (req'[r].pc = "createuser" <=> OwnRows(users, a) = {})
                      /\ req[r].pc = "createuser"
                         => (last'.err = ErrCreateUser /\ Returns(r)
                             <=> OwnRows(users, a) # {})]_vars

\* a VerifyOTP succeeded for one phone number while another phone number holds a
\* challenge, created no later, that is still pending, counted and unregistered
C28_Witness ==
    /\ last.op = "verify" /\ last.err = OK
    /\ \E o \in otps :
          /\ o.phone # last.phone
          /\ o \in GetByPhoneNumber(otps, o.phone, now)
          /\ GetRecentOTPCount(otps, o.phone, now - WindowMinutes) >= 1
          /\ OwnRows(users, o.phone) = {}
          /\ \E x \in otps : x.phone = last.phone /\ x.used /\ o.createdAt <= x.createdAt

(***************************************************************************)
(* C29, C30: DeleteExpired                                                 *)
(***************************************************************************)
\* the otps table as it would be had DeleteExpired never run: the rows it removed
\* (all of them expired when removed) are back
Unpurged == otps \cup {l \in hist.log : l.id \notin OTPRowIDs(otps)}

\* LatestValid and CountSince give what they would give had DeleteExpired never run
C29_SameResults ==
    \A p \in Phones :
       /\ GetByPhoneNumber(otps, p, now) = GetByPhoneNumber(Unpurged, p, now)
       /\ GetRecentOTPCount(otps, p, now - PurgeWindowMinutes)
             = GetRecentOTPCount(Unpurged, p, now - PurgeWindowMinutes)

\* a GenerateOTP or VerifyOTP that is called takes the branch it would take had
\* DeleteExpired never run
C29_SameOutcomes ==
    \A p \in Phones :
       /\ Called("generate", p)
          => ((ReturnedAtOnce /\ last'.err = ErrRateLimit)
              <=> RateLimitExceeded(GetRecentOTPCount(Unpurged, p, now - PurgeWindowMinutes)))
       /\ Called("verify", p)
          => ((ReturnedAtOnce /\ last'.err = ErrNoOTP)
              <=> GetByPhoneNumber(Unpurged, p, now) = {})

\* C29: in every reachable state the results of LatestValid and CountSince, and the
\* outcomes of the GenerateOTP and VerifyOTP calls that follow, are the same
\* whether or not DeleteExpired has been run.
C29_PurelyHousekeeping == []C29_SameResults /\ [][C29_SameOutcomes]_vars

\* C30: DeleteExpired removes exactly the rows with expires_at < now and leaves the
\* others as they were; no row it removes is one the lookup of any phone number
\* could return; run again at the same time, it removes nothing more.
C30_DeleteExpiredIdempotent ==
    [][calls'.purge = calls.purge + 1
       => /\ otps' \subseteq otps
          /\ otps \ otps' = {o \in otps : o.expiresAt < now}
          /\ \A p \in Phones : (otps \ otps') \cap ValidOTPs(otps, p, now) = {}
          /\ \A p \in Phones : GetByPhoneNumber(otps', p, now) = GetByPhoneNumber(otps, p, now)
          /\ DeleteExpired(otps', now) = otps']_vars

\* a DeleteExpired has removed an expired row and left an unused row that expires
\* at this very instant; a further run would remove nothing
C30_Witness ==
    /\ calls.purge >= 1
    /\ \E l \in hist.log : l.id \notin OTPRowIDs(otps) /\ l.expiresAt < now
    /\ \E o \in otps : o.expiresAt = now /\ ~o.used
    /\ DeleteExpired(otps, now) = otps

(***************************************************************************)
(* C31: the HTTP response of each service outcome                          *)
(***************************************************************************)
\* the generic messages of the 500 responses
GenericMessages == {"Failed to generate OTP", "Failed to verify OTP"}

\* C31: the response to a GenerateOTP or VerifyOTP request is 200 for a success,
\* 429 for the rate-limit error, 401 for each of "invalid or expired OTP",
\* "invalid OTP code" and "OTP has expired", and 500 for every other error, with a
\* generic message that is not the error the service returned.
C31_StatusOfOutcome ==
    (last.op \in {"generate", "verify"})
    => /\ last.err = OK <=> last.http.status = 200
       /\ last.err = ErrRateLimit <=> last.http.status = 429
       /\ last.err \in {ErrNoOTP, ErrBadCode, ErrExpired} <=> last.http.status = 401
       /\ last.err \notin {OK, ErrRateLimit, ErrNoOTP, ErrBadCode, ErrExpired}
          <=> last.http.status = 500
       /\ last.http.status = 500
          => /\ last.http.error \in GenericMessages
             /\ last.http.error # last.err
             /\ last.err \in {ErrCheckRateLimit, ErrGenerateOTP, ErrSaveOTP, ErrGetOTP,
                              ErrMarkAsUsed, ErrGetUser, ErrCreateUser, ErrUpdateUser}

\* a VerifyOTP whose challenge expired between lookup and re-check was answered
\* 401, in a behaviour in which a call failed and a GenerateOTP returned without
\* a challenge
C31_Witness ==
    /\ last.op = "verify" /\ last.err = ErrExpired /\ last.http.status = 401
    /\ calls.fault >= 1
    /\ calls.generate > Cardinality(hist.log)
    /\ \A r \in Procs : req[r].pc = "idle"

(***************************************************************************)
(* C32: generateRandomCode                                                 *)
(***************************************************************************)
\* C32: generateRandomCode(length) returns exactly length characters, each a digit
\* 0-9, for every length from 0 on, and changes neither table; so does the call
\* GenerateOTP makes with the configured length.
C32_DigitString ==
    [][/\ calls'.random = calls.random + 1
          => /\ Len(last'.code) = last'.length
             /\ \A i \in 1..Len(last'.code) : last'.code[i] \in 0..9
             /\ otps' = otps /\ users' = users
       /\ \A p \in Phones :
             (Called("generate", p) /\ ~ReturnedAtOnce)
             => /\ \A r \in Procs :
                      req'[r] # req[r]
                      => /\ Len(req'[r].code) = OTPLength
                         /\ \A i \in 1..Len(req'[r].code) : req'[r].code[i] \in 0..9
                /\ otps' = otps /\ users' = users]_vars

\* generateRandomCode returned a code of the greatest length of the bound while a
\* challenge was stored; a call for length 0 had returned before
C32_Witness ==
    /\ last.op = "random" /\ last.length = MaxLength /\ Len(last.code) = MaxLength
    /\ calls.random = 2
    /\ otps # {}

(***************************************************************************)
(* C33: the order of the steps of one VerifyOTP                            *)
(***************************************************************************)
\* the steps that can follow a step of VerifyOTP in the same invocation
VerifyOTPSuccessors(pc) ==
    CASE pc = "idle" -> {"valid"}
      [] pc = "valid" -> {"mark"}
      [] pc = "mark" -> {"getuser"}
      [] pc = "getuser" -> {"createuser", "touch"}
      [] pc = "createuser" -> {"touch"}
      [] pc = "touch" -> {"update"}
      [] OTHER -> {}

\* C33: one VerifyOTP takes its steps in the order lookup and code comparison,
\* validity re-check, MarkAsUsed, user lookup, user create, user update, token; it
\* reaches the user lookup only by a MarkAsUsed that succeeded, and a user row is
\* written or a token returned only by an invocation past that point.
C33_StepsInOrder ==
    [][/\ \A r \in Procs :
             /\ (req'[r] # req[r] /\ req'[r].op = "verify")
                => req'[r].pc \in VerifyOTPSuccessors(req[r].pc)
             /\ (req'[r] # req[r] /\ req'[r].pc = "getuser")
                => /\ req[r].pc = "mark"
                   /\ otps' = MarkAsUsed(otps, req[r].phone)
                   /\ \A o \in otps' : o.phone = req[r].phone => o.used
             /\ (Returns(r) /\ req[r].op = "verify" /\ last'.token # NilToken)
                => req[r].pc = "update"
             /\ (req[r].op = "verify" /\ req[r].pc = "mark" /\ req'[r] # req[r]
                 /\ otps' = otps /\ \E o \in otps : o.phone = req[r].phone /\ ~o.used)
                => Returns(r) /\ last'.err = ErrMarkAsUsed
       /\ users' # users
          => \E r \in Procs :
                /\ req[r].op = "verify" /\ req[r].pc \in {"createuser", "update"}
                /\ req'[r] # req[r]
                /\ \A u \in (users' \ users) \cup (users \ users') :
                      u.phone = req[r].phone]_vars

\* a VerifyOTP that created the user returned a session, after a store call of
\* another invocation had failed
C33_Witness ==
    /\ last.op = "verify" /\ last.err = OK /\ last.made /\ last.token # NilToken
    /\ calls.fault >= 1
    /\ \E u \in users : u.phone = last.phone
    /\ \A o \in otps : o.phone = last.phone => o.used

(***************************************************************************)
(* C34: the start of the rate-limit window                                 *)
(***************************************************************************)
\* C34: GetRecentOTPCount counts a challenge created exactly at since; so a
\* GenerateOTP called exactly one window after the oldest of MaxRequests challenges
\* of the phone number is refused, and one called later than that, with no further
\* challenge created since that oldest one, passes the rate check.
C34_WindowStartInclusive ==
    /\ [](\A o \in otps : GetRecentOTPCount({o}, o.phone, o.createdAt) = 1)
    /\ [][\A p \in Phones :
             \A oldest \in Issued(p) :
                (/\ Called("generate", p)
                 /\ Cardinality(IssuedSince(p, oldest.createdAt)) = MaxRequests)
                => /\ (now = oldest.createdAt + WindowMinutes)
                      => (ReturnedAtOnce /\ last'.err = ErrRateLimit)
                   /\ (now > oldest.createdAt + WindowMinutes)
                      => (~ReturnedAtOnce
                          /\ \E r \in Procs :
                                /\ req'[r].op = "generate" /\ req'[r].pc = "create"
                                /\ req'[r].phone = p)]_vars

\* a GenerateOTP was refused exactly one window after the oldest of the
\* MaxRequests challenges of its phone number, the later ones alone being too few
C34_Witness ==
    /\ last.op = "generate" /\ last.err = ErrRateLimit /\ last.at = now
    /\ \E oldest \in Issued(last.phone) :
          /\ oldest.createdAt + WindowMinutes = now
          /\ Cardinality(IssuedSince(last.phone, oldest.createdAt)) = MaxRequests
          /\ Cardinality(IssuedSince(last.phone, oldest.createdAt + 1)) < MaxRequests

(***************************************************************************)
(* C35: termination                                                        *)
(***************************************************************************)
\* the place of a step in its invocation
StepRank(pc) ==
    CASE pc = "idle" -> 0
      [] pc = "create" -> 1
      [] pc = "valid" -> 1
      [] pc = "mark" -> 2
      [] pc = "getuser" -> 3
      [] pc = "createuser" -> 4
      [] pc = "touch" -> 5
      [] pc = "update" -> 6
      [] OTHER -> 7

\* C35: every GenerateOTP and VerifyOTP that has started returns; its next statement
\* can always be taken whatever the other invocation is doing, and each step takes
\* it further down the function or out of it, so it returns after a bounded
\* number of store calls.
C35_Terminates ==
    /\ \A r \in Procs : (req[r].pc # "idle") ~> (req[r].pc = "idle")
    /\ [](\A r \in Procs : req[r].pc # "idle" => ENABLED Proceed(r))
    /\ [][\A r \in Procs :
             req'[r] # req[r]
             => \/ req'[r].pc = "idle" /\ req[r].pc # "idle"
                \/ /\ StepRank(req'[r].pc) > StepRank(req[r].pc)
                   /\ StepRank(req'[r].pc) <= 6]_vars

\* every invocation the behaviour could start has started and returned, one with
\* a session and one with a store failure among them
C35_Witness ==
    /\ \A r \in Procs : req[r].pc = "idle"
    /\ calls.generate = MaxFaultGenerate /\ calls.verify = MaxFaultVerify
    /\ calls.fault >= 1
    /\ \E p \in Phones : hist.ok[p] >= 1

(***************************************************************************)
(* C36: userService tells "not found" from a failing store                 *)
(***************************************************************************)
\* the step is one in which a store call fails
Faulted == calls'.fault = calls.fault + 1

InFlight(p) == {r \in Procs : req[r].op = "generate" /\ req[r].phone = p}

\* C37: with at most k GenerateOTP invocations for a phone number in flight at a
\* time (k the number of request slots), no span of one window holds more than
\* MaxRequests + k - 1 challenges created for it.
C37_OvershootBounded ==
    \A p \in Phones :
       /\ Cardinality(InFlight(p)) <= Cardinality(Procs)
       /\ \A t \in Times :
             Cardinality(IssuedInSpan(p, t)) <= MaxRequests + Cardinality(Procs) - 1

\* a phone number has MaxRequests + k - 1 challenges created within one window,
\* and a GenerateOTP for it called after that was refused
C37_Witness ==
    /\ last.op = "generate" /\ last.err = ErrRateLimit
    /\ \E t \in Times :
          Cardinality(IssuedInSpan(last.phone, t)) = MaxRequests + Cardinality(Procs) - 1
    /\ calls.generate > MaxRequests + Cardinality(Procs) - 1

(***************************************************************************)
(* C38: which challenges a VerifyOTP consumes                              *)
(***************************************************************************)
\* the step is the MarkAsUsed of the VerifyOTP in slot r
MarksAsUsed(r) == req[r].op = "verify" /\ req[r].pc = "mark" /\ req'[r].pc = "getuser"

\* the unused challenges of the VerifyOTP's phone number that were inserted after
\* its lookup: had one been there, unused and with its later expiry, the lookup
\* would have returned it or a later one
CreatedSinceLookup(r) ==
    {x \in otps : /\ x.phone = req[r].phone /\ ~x.used
                  /\ x.createdAt > req[r].otp.createdAt}

\* C38 as stated: the MarkAsUsed of a VerifyOTP leaves unconsumed, and open to a
\* later verification, every challenge created for the phone number after the
\* VerifyOTP's lookup.
C38_ConsumesOnlyExisting ==
    [][\A r \in Procs :
          MarksAsUsed(r)
          => \A x \in CreatedSinceLookup(r) :
                /\ x \in otps'
                /\ x.expiresAt > now => GetByPhoneNumber(otps', x.phone, now) # {}]_vars

\* C38, amended: the MarkAsUsed of a VerifyOTP consumes every challenge of the phone
\* number that is unconsumed when it runs, also one created after the VerifyOTP's
\* lookup, so that no challenge of the phone number can be verified right after
\* it; it changes no other row, and no other step of the VerifyOTP changes the
\* otps table, so a challenge created after the MarkAsUsed is not consumed by this
\* VerifyOTP.
C38_ConsumesAllAtMark ==
    [][\A r \in Procs :
          (req[r].op = "verify" /\ req'[r] # req[r])
          => IF MarksAsUsed(r)
                THEN /\ \A x \in otps' : x.phone = req[r].phone => x.used
                     /\ \A x \in otps :
                           /\ x.phone = req[r].phone => [x EXCEPT !.used = TRUE] \in otps'
                           /\ x.phone # req[r].phone => x \in otps'
                     /\ Cardinality(otps') = Cardinality(otps)
                     /\ GetByPhoneNumber(otps', req[r].phone, now) = {}
                ELSE otps' = otps]_vars

\* the one VerifyOTP that has succeeded for a phone number consumed, besides the
\* challenge it matched, a challenge created after its lookup
C38_Witness ==
    /\ last.op = "verify" /\ last.err = OK
    /\ hist.ok[last.phone] = 1
    /\ \A r \in Procs : req[r].pc = "idle"
    /\ \E x \in otps :
          /\ x.phone = last.phone /\ x.used /\ x.id # last.otp
          /\ x.createdAt > last.at
          /\ hist.wins[x.id] = 0

(***************************************************************************)
(* C39: where user rows come from                                          *)
(***************************************************************************)
\* the errors with which VerifyOTP refuses a verification
Refusals == {ErrNoOTP, ErrBadCode, ErrExpired}

C40_LastLoginMonotone ==
    [][\A u \in users, v \in users' :
          u.id = v.id
          => /\ v.lastLoginAt >= u.lastLoginAt
             /\ v.updatedAt >= u.updatedAt]_vars

====
